---- MODULE Spec2Model ----
(***************************************************************************)
(* Synchronization engine of github-service: the PostgreSQL job queue      *)
(* (internal/queue), the job worker that drains it (internal/worker), the  *)
(* sync service (service.SyncRepository) and the repositories / commits    *)
(* relations of the store (internal/database).                             *)
(*                                                                         *)
(* Time is counted in seconds.  SQL statements are atomic steps; a         *)
(* transaction that holds a row lock spans two steps (statement, commit).  *)
(* The database itself is taken to be available: the only store errors of  *)
(* the model are the ones the data decides (constraint violations, zero    *)
(* rows affected).  The upstream API may fail at every call.               *)
(***************************************************************************)
EXTENDS Integers, Sequences, FiniteSets, TLC

\* ---------------------------------------------------------------- bounds
MaxTime == 1
MaxJobs == 2
\* how many times AddMonitoredRepository is called
MaxAdds == 3
\* how long the clock runs beside the monitor: the two backoffs of a
\* repository that fails three times take 1 s and 4 s
MaxMonitorTime == 5
\* the largest retry_count calculateBackoff is given
MaxRetryCount == 10
\* the most pages of commits the upstream serves for one GetCommits call
MaxPages == 3
\* the configured monitor intervals run from -MaxInterval to MaxInterval
\* seconds, beside a few around one hour
MaxInterval == 60

\* ------------------------------------------------------ program constants
DefaultMaxRetries == 3
DefaultInitialBackoff == 1
\* 1 h, 2.0, and 0.1 written as 1 / 10
DefaultMaxBackoff == 3600
DefaultBackoffFactor == 2
DefaultJitterFactorInverse == 10
SevenDays == 604800
\* time.Hour, in seconds
Hour == 3600

\* time.Time{} (the zero time, year 1) lies before every other instant
ZeroTime == 0 - 1000000
\* SQL NULL in a nullable timestamp column
NullTime == 0 - 2000000

JobTypeSync == "sync"
JobTypeResync == "resync"
JobTypeCleanup == "cleanup"

JobStatusPending == "pending"
JobStatusRunning == "running"
JobStatusComplete == "complete"
JobStatusFailed == "failed"
JobStatusStopped == "stopped"

JobStatuses ==
    {JobStatusPending, JobStatusRunning, JobStatusComplete, JobStatusFailed,
     JobStatusStopped}

\* ------------------------------------------------------------ environment
Workers == {"w1", "w2"}
\* the other callers of the service: an API handler and the monitor
Services == {"api", "mon"}
Callers == Workers \cup Services
JobIds == 1..MaxJobs
\* the value of Job.ID when the caller left it empty
EmptyID == 0

\* The upstream repositories the payloads name: owner/name -> upstream id.
UpstreamRepos == {"golang/example"}
UpstreamID(full) == IF full = "golang/example" THEN 1 ELSE 2
\* the full names (owner + "/" + name) given to the monitor
MonitorNames == {"golang/example", "golang/tools"}
\* the goroutines that call Client.GetRepository
Clients == {"c1", "c2"}

\* The commits the upstream holds for a repository, newest first: one
\* younger than seven days, one older.
UpstreamCommits(full) ==
    << [sha |-> "b", date |-> 0 - 10], [sha |-> "a", date |-> 0 - 700000] >>

NoJob == [id |-> EmptyID]

VARIABLES
    now,            \* wall clock, seconds
    jobs,           \* relation jobs: id -> row, committed state
    locked,         \* ids of the jobs rows locked by an open transaction
    enqueued,       \* the Job struct of the last Enqueue call and its result
    wpc,            \* worker -> position in JobWorker.processNextJob
    wjob,           \* worker -> the *Job that Dequeue returned (worker-local)
    werr,           \* worker -> processErr
    repositories,   \* relation repositories: set of rows
    repoSeq,        \* sequence behind repositories.id (SERIAL)
    commits,        \* relation commits: set of rows
    commitSeq,      \* sequence behind commits.id (SERIAL)
    spc,            \* caller -> position in Service.SyncRepository
    sync,           \* caller -> locals of its SyncRepository call
    serr,           \* caller other than a job worker -> what its last
                    \* SyncRepository call returned
    dpc,            \* position of the API handler in Service.DeleteRepository
    drepo,          \* the repository id that handler found
    deleted,        \* observation: the repository ids DeleteRepository deleted
    monitored,      \* relation monitored_repositories: set of rows
    monSeq,         \* sequence behind monitored_repositories.id (SERIAL)
    apc,            \* position of the API handler in SyncWorker.AddRepository
    acall,          \* the AddRepository call in progress
    aret,           \* observation: the AddRepository call that returned last
    rateLimit,      \* Client.rateLimit: the cached snapshot
    rlock,          \* the callers that hold rateLimitMu.RLock
    wlock,          \* the caller that holds rateLimitMu.Lock, or ""
    cpc,            \* client caller -> position in Client.GetRepository
    ccall,          \* client caller -> its call: context, response, result
                    \* and what it was observed to do
    mpc,            \* position of the monitor in SyncWorker.syncAll
    mon,            \* locals of syncAll, its context, and what it was
                    \* observed to do in the current tick
    calc,           \* the job handed to JobWorker.calculateBackoff over
                    \* its retries and the durations returned
    gc,             \* the Client.GetCommits call: its locals, its context,
                    \* and the requests and pages it was observed to
                    \* send and receive
    sw,             \* the SyncWorker: the interval it was built with, its
                    \* syncInterval field and the period of its ticker
    run,            \* the worker loops: the context handed to Start, the
                    \* stop channels, the position of each loop, the
                    \* WaitGroup of the pool and the position of Pool.Stop
    lastSync,       \* observation: arguments and result of the SyncRepository
                    \* call that returned last
    history         \* observation: per job, in order, the statuses written to
                    \* its row and the results its handler returned

vars ==
    << now, jobs, locked, enqueued, wpc, wjob, werr, repositories, repoSeq,
       commits, commitSeq, spc, sync, lastSync, history, serr, dpc, drepo,
       deleted, monitored, monSeq, apc, acall, aret, rateLimit, rlock, cpc,
       ccall, mpc, mon, calc, gc, sw, wlock, run >>

queueVars == << jobs, locked, enqueued >>
workerVars == << wpc, wjob, werr >>
storeVars == << repositories, repoSeq, commits, commitSeq >>
syncVars == << spc, sync, lastSync >>
deleteVars == << dpc, drepo, deleted >>
\* what the queue, the job worker and the steps of SyncRepository leave alone
monitoredVars == << monitored, monSeq >>
addVars == << apc, acall, aret >>
clientVars == << rateLimit, rlock, wlock, cpc, ccall >>
monitorVars == << mpc, mon >>
\* the state of the functions that are checked on their own
functionVars == << calc, gc, sw >>
extVars ==
    << deleteVars, monitoredVars, addVars, clientVars, monitorVars,
       functionVars, run >>

\* ----------------------------------------------------------------- helpers
RECURSIVE SelectSeq2(_, _)
\* the members of sequence s whose date is not before since, in order
SelectSeq2(s, since) ==
    IF s = << >> THEN << >>
    ELSE IF Head(s).date >= since
         THEN << Head(s) >> \o SelectSeq2(Tail(s), since)
         ELSE SelectSeq2(Tail(s), since)

\* ------------------------------------------------------------------- Init
NoSync ==
    [full |-> "", since |-> ZeroTime, repoID |-> 0, githubID |-> 0,
     commits |-> << >>, again |-> FALSE]

NoCall == [full |-> "", since |-> ZeroTime, err |-> "none", again |-> FALSE]

\* no HTTP response
NoResponse == [status |-> 0, remaining |-> "", reset |-> "", limit |-> ""]

\* GetRateLimitInfo has not been called
NoInfo == [Remaining |-> 0, Reset |-> ZeroTime, Limit |-> 0]

\* a GetRepository call at its start
NoRequest ==
    [cancelled |-> FALSE, wake |-> 0, resp |-> NoResponse, err |-> "none",
     gated |-> FALSE, reset |-> 0, sent |-> 0, sentAt |-> 0,
     cancelledInGate |-> FALSE, unlockedReads |-> 0, raced |-> FALSE,
     resetRead |-> 0, info |-> NoInfo]

\* calculateBackoff has not been called
NoCalc == [initial_backoff |-> 0, retry_count |-> 0, out |-> 0, plain |-> << >>]

\* GetCommits has not been called
NoGetCommits ==
    [pc |-> "idle", page |-> 0, pageCommits |-> << >>, allCommits |-> << >>,
     status |-> 0, cancelled |-> FALSE, err |-> "none", requests |-> << >>,
     pages |-> << >>]

\* no SyncWorker has been built
NoSyncWorker == [pc |-> "none", configured |-> 0, syncInterval |-> 0, ticker |-> 0]

\* syncAll is not running
NoTick ==
    [repos |-> << >>, full |-> "", attempt |-> 0, wake |-> 0,
     cancelled |-> FALSE, started |-> FALSE, aborted |-> FALSE,
     list |-> {}, tried |-> << >>, failed |-> {}]

\* the goroutines of a worker.Pool
PoolWorkers == {"p1", "p2"}

\* no worker loop has been started: the context is alive, the stop channels
\* are open, the WaitGroup is at zero and Pool.Stop has not been called
NoRun ==
    [ctx |-> FALSE, stop |-> FALSE, loop |-> [w \in Workers |-> "none"],
     stopChan |-> FALSE, wg |-> 0, pool |-> [i \in PoolWorkers |-> "none"],
     pstop |-> "none"]

\* no AddRepository call
NoAdd ==
    [full |-> "", start |-> 0, fresh |-> FALSE, active |-> FALSE,
     disturbed |-> FALSE, err |-> "none"]

\* The store the process finds at start: empty, or the rows an earlier run
\* left after a resync (database.New creates the tables only if absent; the
\* jobs table is dropped and created anew by NewPostgresQueue).
InitialStores ==
    {[repositories |-> {}, repoSeq |-> 0, commits |-> {}, commitSeq |-> 0],
     [repositories |->
          {[id |-> 1, github_id |-> 1, full_name |-> "golang/example",
            last_commit_check |-> 0 - 5, commits_since |-> 0 - 604805]},
      repoSeq |-> 1,
      commits |-> {[id |-> 1, repository_id |-> 1, sha |-> "b"]},
      commitSeq |-> 1]}

InitProcess ==
    /\ now = 0
    /\ jobs = << >>
    /\ locked = {}
    /\ enqueued = [arg |-> NoJob, job |-> NoJob, err |-> FALSE]
    /\ wpc = [w \in Workers |-> "idle"]
    /\ wjob = [w \in Workers |-> NoJob]
    /\ werr = [w \in Workers |-> ""]
    /\ \E store \in InitialStores :
          /\ repositories = store.repositories
          /\ repoSeq = store.repoSeq
          /\ commits = store.commits
          /\ commitSeq = store.commitSeq
    /\ spc = [c \in Callers |-> "none"]
    /\ sync = [c \in Callers |-> NoSync]
    /\ serr = [c \in Services |-> ""]
    /\ dpc = "idle"
    /\ drepo = 0
    /\ deleted = {}
    /\ apc = "idle"
    /\ acall = NoAdd
    /\ aret = NoAdd
    /\ rateLimit = [Remaining |-> 60, Reset |-> now + 3600, Limit |-> 60]
    /\ rlock = {}
    /\ wlock = ""
    /\ cpc = [c \in Clients |-> "idle"]
    /\ ccall = [c \in Clients |-> NoRequest]
    /\ lastSync = NoCall
    /\ history = [j \in JobIds |-> << >>]
    /\ mpc = "idle"
    /\ mon = NoTick
    /\ run = NoRun

InitFunctions == calc = NoCalc /\ gc = NoGetCommits /\ sw = NoSyncWorker

\* the process starts on a store without monitored repositories
Init ==
    /\ InitProcess
    /\ monitored = {}
    /\ monSeq = 0
    /\ InitFunctions

\* The monitored_repositories table a restarted process finds (the table is
\* created only if absent): rows that AddRepository calls left, among
\* them one whose name AddRepository built from a name with a slash in it.
InitialMonitored ==
    {{[id |-> 1, full_name |-> "golang/example", last_sync_time |-> 0 - 20,
       is_active |-> TRUE],
      [id |-> 2, full_name |-> "golang/x/y", last_sync_time |-> 0 - 5,
       is_active |-> TRUE],
      [id |-> 3, full_name |-> "golang/tools", last_sync_time |-> 0 - 5,
       is_active |-> TRUE]},
     {[id |-> 1, full_name |-> "golang/example", last_sync_time |-> 0 - 20,
       is_active |-> FALSE],
      [id |-> 2, full_name |-> "golang/tools", last_sync_time |-> 0 - 5,
       is_active |-> TRUE]}}

InitMonitor ==
    /\ InitProcess
    /\ monitored \in InitialMonitored
    /\ monSeq = Cardinality(monitored)
    /\ InitFunctions

\* ------------------------------------------------------------------ clock
Tick ==
    /\ now < MaxTime
    /\ now' = now + 1
    /\ UNCHANGED << queueVars, workerVars, storeVars, syncVars,
                    history, serr, extVars >>

\* ------------------------------------------------------------ queue.Enqueue
\* uuid.New(): an id no row carries
NewUUID == CHOOSE id \in JobIds : id \notin DOMAIN jobs

\* variant: the defaults applied only to fields that are exactly zero
EnqueueJobZeroOnly(job) ==
    [id |-> IF job.id = EmptyID THEN NewUUID ELSE job.id,
     type |-> job.type,
     status |-> JobStatusPending,
     repo |-> job.repo,
     created_at |-> now,
     updated_at |-> now,
     error |-> "",
     retry_count |-> 0,
     max_retries |->
         IF job.max_retries = 0 THEN DefaultMaxRetries ELSE job.max_retries,
     last_retry_at |-> NullTime,
     next_retry_at |-> NullTime,
     initial_backoff |->
         IF job.initial_backoff = 0 THEN DefaultInitialBackoff
         ELSE job.initial_backoff]

\* variant: max_retries is stored as the caller gave it
EnqueueJobNoDefault(job) ==
    [id |-> IF job.id = EmptyID THEN NewUUID ELSE job.id,
     type |-> job.type,
     status |-> JobStatusPending,
     repo |-> job.repo,
     created_at |-> now,
     updated_at |-> now,
     error |-> "",
     retry_count |-> 0,
     max_retries |-> job.max_retries,
     last_retry_at |-> NullTime,
     next_retry_at |-> NullTime,
     initial_backoff |->
         IF job.initial_backoff <= 0 THEN DefaultInitialBackoff
         ELSE job.initial_backoff]

\* The Job struct as Enqueue leaves it before the INSERT.
EnqueueJob(job) ==
    [id |-> IF job.id = EmptyID THEN NewUUID ELSE job.id,
     type |-> job.type,
     status |-> JobStatusPending,
     repo |-> job.repo,
     created_at |-> now,
     updated_at |-> now,
     error |-> "",
     retry_count |-> 0,
     max_retries |->
         IF job.max_retries <= 0 THEN DefaultMaxRetries ELSE job.max_retries,
     last_retry_at |-> NullTime,
     next_retry_at |-> NullTime,
     initial_backoff |->
         IF job.initial_backoff <= 0 THEN DefaultInitialBackoff
         ELSE job.initial_backoff]

Insert(rel, row) == [i \in DOMAIN rel \cup {row.id} |-> IF i = row.id THEN row ELSE rel[i]]

Record(h, id, event) == [h EXCEPT ![id] = Append(@, event)]

\* Enqueue(job): the caller's struct is job; the row is inserted unless the
\* primary key exists already, in which case the INSERT fails.
Enqueue(job) ==
    /\ job.id # EmptyID \/ DOMAIN jobs # JobIds
    /\ LET row == EnqueueJob(job) IN
         IF row.id \in DOMAIN jobs
         THEN /\ enqueued' = [arg |-> job, job |-> row, err |-> TRUE]
              /\ UNCHANGED << jobs, history >>
         ELSE /\ jobs' = Insert(jobs, row)
              /\ enqueued' = [arg |-> job, job |-> row, err |-> FALSE]
              /\ history' = Record(history, row.id, row.status)
    /\ UNCHANGED << now, locked, workerVars, storeVars, syncVars, serr,
                    extVars >>

\* The retry fields of the Job struct handed to Enqueue: zero (the API
\* handlers set Type and Payload only) or set by the caller.
RetryConfigs ==
    {[max_retries |-> 0, initial_backoff |-> 0],
     [max_retries |-> 1, initial_backoff |-> 2]}

\* The jobs handed to Enqueue: a type of the package, a payload naming the
\* repository, ID and CreatedAt left zero as the API handlers leave them.
AppJobs ==
    {[id |-> EmptyID, type |-> t, status |-> "", repo |-> r, retry_count |-> 0,
      max_retries |-> c.max_retries, initial_backoff |-> c.initial_backoff] :
        t \in {JobTypeSync, JobTypeResync, JobTypeCleanup},
        r \in UpstreamRepos, c \in RetryConfigs}

\* ------------------------------------------------------------ queue.Dequeue
\* variant: the sub-select also takes the rows waiting for a retry
StatusMatchesOrFailed(row) ==
    row.status \in {JobStatusPending, JobStatusFailed}

\* WHERE status = $3
StatusMatches(row) == row.status = JobStatusPending

\* variant: the sub-select without FOR UPDATE SKIP LOCKED
SkipLockedMissing(id) == FALSE

\* FOR UPDATE SKIP LOCKED: a row another transaction has locked is passed over
SkipLocked(id) == id \in locked

\* variant: LIMIT 1 without the ORDER BY
OrderByMissing(S) == S

\* ORDER BY created_at ASC LIMIT 1: the rows of S no other row of S precedes
OrderByCreatedAt(S) ==
    {j \in S : \A k \in S : jobs[j].created_at <= jobs[k].created_at}

\* the rows the sub-select of Dequeue may return (none, or the oldest ones)
DequeueSelect ==
    OrderByCreatedAt({j \in DOMAIN jobs : StatusMatches(jobs[j]) /\ ~SkipLocked(j)})

\* the row image the UPDATE ... RETURNING yields
DequeueRow(j) ==
    [jobs[j] EXCEPT !.status = JobStatusRunning, !.updated_at = now]

\* Dequeue, the statement: no row gives (nil, nil) and processNextJob
\* returns to the loop of Start that called it; otherwise the row is locked
\* and updated inside the transaction.
Dequeue(w) ==
    /\ wpc[w] = "idle"
    /\ IF DequeueSelect = {}
       THEN /\ run' = [run EXCEPT !.loop[w] =
                           IF @ = "default" THEN "sleep" ELSE @]
            /\ UNCHANGED << locked, wpc, wjob >>
       ELSE /\ \E j \in DequeueSelect :
                  /\ locked' = locked \cup {j}
                  /\ wjob' = [wjob EXCEPT ![w] = DequeueRow(j)]
                  /\ wpc' = [wpc EXCEPT ![w] = "commit"]
            /\ UNCHANGED run
    /\ UNCHANGED << now, jobs, enqueued, werr, storeVars, syncVars, history,
                    serr, deleteVars, monitoredVars, addVars, clientVars,
                    monitorVars, functionVars >>

\* Dequeue, tx.Commit(): the update becomes visible and the lock is released.
DequeueCommit(w) ==
    /\ wpc[w] = "commit"
    /\ jobs' = [jobs EXCEPT ![wjob[w].id] = wjob[w]]
    /\ locked' = locked \ {wjob[w].id}
    /\ wpc' = [wpc EXCEPT ![w] = "dispatch"]
    /\ history' = Record(history, wjob[w].id, JobStatusRunning)
    /\ UNCHANGED << now, enqueued, wjob, werr, storeVars, syncVars, serr,
                    extVars >>

\* ----------------------------------------------- queue.Complete, queue.Fail
\* variant: the UPDATE of Complete without its WHERE id = $3
CompleteEveryRow(rel, jobID) ==
    [i \in DOMAIN rel |->
        [rel[i] EXCEPT !.status = JobStatusComplete, !.updated_at = now]]

\* Complete(jobID): UPDATE jobs SET status, updated_at WHERE id
Complete(rel, jobID) ==
    IF jobID \in DOMAIN rel
    THEN [rel EXCEPT ![jobID].status = JobStatusComplete,
                     ![jobID].updated_at = now]
    ELSE rel

\* variant: Fail stores the count the worker has incremented already, plus one
FailCountsTwice(rel, jobID, err) ==
    IF jobID \in DOMAIN rel
    THEN LET retryCount == rel[jobID].retry_count + 2 IN
         [rel EXCEPT ![jobID].status = JobStatusFailed,
                     ![jobID].updated_at = now,
                     ![jobID].error = err,
                     ![jobID].retry_count = retryCount,
                     ![jobID].last_retry_at = now,
                     ![jobID].next_retry_at = now + DefaultInitialBackoff]
    ELSE rel

\* variant: the UPDATE of Fail without its WHERE id = $6
FailEveryRow(rel, jobID, err) ==
    [i \in DOMAIN rel |->
        [rel[i] EXCEPT !.status = JobStatusFailed,
                       !.updated_at = now,
                       !.error = err,
                       !.retry_count = @ + 1,
                       !.last_retry_at = now,
                       !.next_retry_at = now + DefaultInitialBackoff]]

\* Fail(jobID, err): the first UPDATE, then the UPDATE of initial_backoff
\* when the returned retry_count is 1.
Fail(rel, jobID, err) ==
    IF jobID \in DOMAIN rel
    THEN LET retryCount == rel[jobID].retry_count + 1 IN
         [rel EXCEPT ![jobID].status = JobStatusFailed,
                     ![jobID].updated_at = now,
                     ![jobID].error = err,
                     ![jobID].retry_count = retryCount,
                     ![jobID].last_retry_at = now,
                     ![jobID].next_retry_at = now + DefaultInitialBackoff,
                     ![jobID].initial_backoff =
                         IF retryCount = 1 THEN DefaultInitialBackoff ELSE @]
    ELSE rel

\* ------------------------------------------------- Service.SyncRepository
\* A call is entered with spc = "GetRepository" and walks the statements of
\* SyncRepository one store or upstream operation per step.
SyncCall(full, since) ==
    [NoSync EXCEPT !.full = full, !.since = since,
                   !.again = /\ lastSync.full = full
                             /\ lastSync.since = since
                             /\ lastSync.err = ""]

Goto(p, pc, locals) ==
    /\ spc' = [spc EXCEPT ![p] = pc]
    /\ sync' = [sync EXCEPT ![p] = locals]
    /\ UNCHANGED << wpc, werr, lastSync, history, serr, extVars >>

\* SyncRepository returns err ("" is nil) to its caller: to the job worker
\* as processErr, to another caller as the err of its call.
Return(p, err) ==
    /\ spc' = [spc EXCEPT ![p] = "none"]
    /\ sync' = [sync EXCEPT ![p] = NoSync]
    /\ lastSync' = [full |-> sync[p].full, since |-> sync[p].since,
                    err |-> err, again |-> sync[p].again]
    /\ IF p \in Workers
       THEN /\ wpc' = [wpc EXCEPT ![p] = "processed"]
            /\ werr' = [werr EXCEPT ![p] = err]
            /\ history' = Record(history, wjob[p].id,
                                 IF err = "" THEN "nil" ELSE "error")
            /\ UNCHANGED serr
       ELSE /\ serr' = [serr EXCEPT ![p] = err]
            /\ UNCHANGED << wpc, werr, history >>
    /\ UNCHANGED extVars

\* s.github.GetRepository: the upstream answers or fails
\* errors.NewGitHubError(op, ...): the errors that wrap an upstream failure
UpstreamErrors == {"GitHubError GetRepository", "GitHubError GetCommits"}

\* variant: the error of the upstream call is dropped and nil returned
GetRepositoryErrorDropped(p) ==
    /\ spc[p] = "GetRepository"
    /\ \/ Return(p, "")
       \/ Goto(p, "GetRepositoryByName",
               [sync[p] EXCEPT !.githubID = UpstreamID(sync[p].full)])
    /\ UNCHANGED << now, queueVars, wjob, storeVars >>

GetRepository(p) ==
    /\ spc[p] = "GetRepository"
    /\ \/ Return(p, "GitHubError GetRepository")
       \/ Goto(p, "GetRepositoryByName",
               [sync[p] EXCEPT !.githubID = UpstreamID(sync[p].full)])
    /\ UNCHANGED << now, queueVars, wjob, storeVars >>

\* rows.Scan into Repository.LastCommitCheck, a time.Time: a NULL
\* last_commit_check cannot be stored in it and Scan fails
ScanFails(row) == row.last_commit_check = NullTime

\* s.db.GetRepositoryByName(repo.FullName) and the branch on existingRepo
GetRepositoryByName(p) ==
    /\ spc[p] = "GetRepositoryByName"
    /\ LET found == {r \in repositories : r.full_name = sync[p].full} IN
         IF found = {}
         THEN Goto(p, "CreateRepository", sync[p])
         ELSE LET existingRepo == CHOOSE r \in found : TRUE IN
              IF ScanFails(existingRepo)
              THEN Return(p, "DatabaseError")
              ELSE Goto(p, "UpdateRepository",
                        [sync[p] EXCEPT !.repoID = existingRepo.id])
    /\ UNCHANGED << now, queueVars, wjob, storeVars >>

\* github_id BIGINT UNIQUE, full_name TEXT UNIQUE
RepositoryConflict(githubID, full) ==
    \E r \in repositories : r.github_id = githubID \/ r.full_name = full

\* s.db.CreateRepository(repo): INSERT ... RETURNING id
CreateRepository(p) ==
    /\ spc[p] = "CreateRepository"
    /\ repoSeq' = repoSeq + 1
    /\ IF RepositoryConflict(sync[p].githubID, sync[p].full)
       THEN /\ Return(p, "RepositoryError")
            /\ UNCHANGED repositories
       ELSE /\ repositories' = repositories \cup
                {[id |-> repoSeq + 1,
                  github_id |-> sync[p].githubID,
                  full_name |-> sync[p].full,
                  last_commit_check |-> NullTime,
                  commits_since |-> ZeroTime]}
            /\ Goto(p, "GetCommits", [sync[p] EXCEPT !.repoID = repoSeq + 1])
    /\ UNCHANGED << now, queueVars, wjob, commits, commitSeq >>

\* UPDATE repositories SET ... WHERE github_id = $10: the rows affected
UpdateRows(githubID) == {r \in repositories : r.github_id = githubID}

\* variant: the UPDATE also writes commits_since from the upstream struct
UpdateRepositoryResets(p) ==
    /\ spc[p] = "UpdateRepository"
    /\ IF UpdateRows(sync[p].githubID) # {}
       THEN Goto(p, "GetCommits", sync[p])
       ELSE Return(p, "RepositoryError")
    /\ repositories' =
          {IF r.github_id = sync[p].githubID
           THEN [r EXCEPT !.commits_since = ZeroTime] ELSE r :
              r \in repositories}
    /\ UNCHANGED << now, queueVars, wjob, repoSeq, commits, commitSeq >>

\* s.db.UpdateRepository(repo): no row affected is an error
UpdateRepository(p) ==
    /\ spc[p] = "UpdateRepository"
    /\ IF UpdateRows(sync[p].githubID) # {}
       THEN Goto(p, "GetCommits", sync[p])
       ELSE Return(p, "RepositoryError")
    /\ UNCHANGED repositories
    /\ UNCHANGED << now, queueVars, wjob, repoSeq, commits, commitSeq >>

\* where the loop over commits stands once `rest` is left to process
LoopPC(rest) ==
    IF rest = << >> THEN "UpdateLastCommitCheck" ELSE "GetCommitsBySHA"

\* s.github.GetCommits(ctx, owner, name, since)
GetCommits(p) ==
    /\ spc[p] = "GetCommits"
    /\ \/ Return(p, "GitHubError GetCommits")
       \/ LET fetched == SelectSeq2(UpstreamCommits(sync[p].full), sync[p].since)
          IN Goto(p, LoopPC(fetched), [sync[p] EXCEPT !.commits = fetched])
    /\ UNCHANGED << now, queueVars, wjob, storeVars >>

\* variant: the existence check always answers nil
CommitNeverFound(repoID, sha) == FALSE

\* SELECT * FROM commits WHERE repository_id = $1 AND sha = $2 finds a row
CommitFound(repoID, sha) ==
    \E r \in commits : r.repository_id = repoID /\ r.sha = sha

\* s.db.GetCommitsBySHA(repo.ID, commit.SHA): a stored commit is skipped
GetCommitsBySHA(p) ==
    /\ spc[p] = "GetCommitsBySHA"
    /\ LET c == Head(sync[p].commits)
           rest == Tail(sync[p].commits)
       IN IF CommitFound(sync[p].repoID, c.sha)
          THEN Goto(p, LoopPC(rest), [sync[p] EXCEPT !.commits = rest])
          ELSE Goto(p, "CreateCommit", sync[p])
    /\ UNCHANGED << now, queueVars, wjob, storeVars >>

\* variant: the commits table without its UNIQUE constraint
CommitConflictMissing(repoID, sha) == FALSE

\* UNIQUE(repository_id, sha)
CommitConflict(repoID, sha) ==
    \E r \in commits : r.repository_id = repoID /\ r.sha = sha

\* variant: repository_id without its REFERENCES clause
ForeignKeyMissing(repoID) == TRUE

\* repository_id INTEGER NOT NULL REFERENCES repositories(id)
ForeignKeyHolds(repoID) == \E r \in repositories : r.id = repoID

\* s.db.CreateCommit(commit): INSERT ... RETURNING id
CreateCommit(p) ==
    /\ spc[p] = "CreateCommit"
    /\ commitSeq' = commitSeq + 1
    /\ LET c == Head(sync[p].commits)
           rest == Tail(sync[p].commits)
       IN IF CommitConflict(sync[p].repoID, c.sha) \/ ~ForeignKeyHolds(sync[p].repoID)
          THEN /\ Return(p, "CommitError")
               /\ UNCHANGED commits
          ELSE /\ commits' = commits \cup
                    {[id |-> commitSeq + 1, repository_id |-> sync[p].repoID,
                      sha |-> c.sha]}
               /\ Goto(p, LoopPC(rest), [sync[p] EXCEPT !.commits = rest])
    /\ UNCHANGED << now, queueVars, wjob, repositories, repoSeq >>

\* s.db.UpdateLastCommitCheck(repo.ID, time.Now())
UpdateLastCommitCheck(p) ==
    /\ spc[p] = "UpdateLastCommitCheck"
    /\ IF \E r \in repositories : r.id = sync[p].repoID
       THEN /\ repositories' =
                 {IF r.id = sync[p].repoID
                  THEN [r EXCEPT !.last_commit_check = now] ELSE r :
                     r \in repositories}
            /\ Goto(p, "SetCommitsSince", sync[p])
       ELSE /\ Return(p, "RepositoryError")
            /\ UNCHANGED repositories
    /\ UNCHANGED << now, queueVars, wjob, repoSeq, commits, commitSeq >>

\* s.db.SetCommitsSince(repo.ID, since) and the final return nil
SetCommitsSince(p) ==
    /\ spc[p] = "SetCommitsSince"
    /\ IF \E r \in repositories : r.id = sync[p].repoID
       THEN /\ repositories' =
                 {IF r.id = sync[p].repoID
                  THEN [r EXCEPT !.commits_since = sync[p].since] ELSE r :
                     r \in repositories}
            /\ Return(p, "")
       ELSE /\ Return(p, "RepositoryError")
            /\ UNCHANGED repositories
    /\ UNCHANGED << now, queueVars, wjob, repoSeq, commits, commitSeq >>

SyncRepository(p) ==
    \/ GetRepository(p)
    \/ GetRepositoryByName(p)
    \/ CreateRepository(p)
    \/ UpdateRepository(p)
    \/ GetCommits(p)
    \/ GetCommitsBySHA(p)
    \/ CreateCommit(p)
    \/ UpdateLastCommitCheck(p)
    \/ SetCommitsSince(p)

\* ------------------------------------------------ Service.DeleteRepository
\* ON DELETE CASCADE: the commits left once repository repoID is deleted
Cascade(repoID) == {c \in commits : c.repository_id # repoID}

\* s.db.GetRepositoryByName(fullName): an error or no row ends the call
DeleteFind(full) ==
    /\ dpc = "idle"
    /\ LET found == {r \in repositories : r.full_name = full} IN
         IF found = {} \/ (\E r \in found : ScanFails(r))
         THEN UNCHANGED << dpc, drepo >>
         ELSE /\ dpc' = "delete"
              /\ drepo' = (CHOOSE r \in found : TRUE).id
    /\ UNCHANGED << now, queueVars, workerVars, storeVars, syncVars, history,
                    serr, deleted, monitoredVars, addVars, clientVars, functionVars, run,
                    monitorVars >>

\* s.db.DeleteRepository(repo.ID): DELETE FROM repositories WHERE id = $1
DeleteRow ==
    /\ dpc = "delete"
    /\ dpc' = "idle"
    /\ drepo' = 0
    /\ IF \E r \in repositories : r.id = drepo
       THEN /\ repositories' = {r \in repositories : r.id # drepo}
            /\ commits' = Cascade(drepo)
            /\ deleted' = deleted \cup {drepo}
       ELSE UNCHANGED << repositories, commits, deleted >>
    /\ UNCHANGED << now, queueVars, workerVars, repoSeq, commitSeq, syncVars,
                    history, serr, monitoredVars, addVars, clientVars, functionVars, run,
                    monitorVars >>

DeleteRepository == (\E full \in UpstreamRepos : DeleteFind(full)) \/ DeleteRow

\* -------------------------------------------------- monitored_repositories
\* AddMonitoredRepository: INSERT ... ON CONFLICT (full_name) DO UPDATE SET
\* sync_interval, is_active = true
AddMonitoredRepository(rel, seq, full) ==
    IF \E m \in rel : m.full_name = full
    THEN {IF m.full_name = full THEN [m EXCEPT !.is_active = TRUE] ELSE m :
             m \in rel}
    ELSE rel \cup {[id |-> seq + 1, full_name |-> full,
                    last_sync_time |-> now, is_active |-> TRUE]}

\* UpdateMonitoredRepositorySync: UPDATE ... SET last_sync_time WHERE full_name
UpdateMonitoredRepositorySync(rel, full, lastSyncTime) ==
    {IF m.full_name = full THEN [m EXCEPT !.last_sync_time = lastSyncTime]
     ELSE m : m \in rel}

\* variant: the row is left as it is
RemoveForgotten(rel, full) == rel

\* variant: DELETE FROM monitored_repositories WHERE full_name
RemoveHardDelete(rel, full) == {m \in rel : m.full_name # full}

\* RemoveMonitoredRepository: UPDATE ... SET is_active = false WHERE full_name
RemoveMonitoredRepository(rel, full) ==
    {IF m.full_name = full THEN [m EXCEPT !.is_active = FALSE] ELSE m :
        m \in rel}

\* GetMonitoredRepositories: ... WHERE is_active = true
GetMonitoredRepositories == {m \in monitored : m.is_active}

\* ---------------------------------------------- SyncWorker.AddRepository
\* AddRepository up to the call of SyncRepository: the row is added (or made
\* active again) and the initial sync starts at now - defaultAge
AddStart(full) ==
    /\ apc = "idle"
    /\ monSeq < MaxAdds
    /\ monitored' = AddMonitoredRepository(monitored, monSeq, full)
    /\ monSeq' = monSeq + 1
    /\ apc' = "sync"
    /\ acall' = [full |-> full, start |-> now,
                 fresh |-> ~\E m \in monitored : m.full_name = full,
                 active |-> \E m \in monitored :
                               m.full_name = full /\ m.is_active,
                 disturbed |-> FALSE, err |-> "none"]
    /\ spc' = [spc EXCEPT !["api"] = "GetRepository"]
    /\ sync' = [sync EXCEPT !["api"] = SyncCall(full, now - SevenDays)]
    /\ UNCHANGED << now, queueVars, workerVars, storeVars, lastSync, history,
                    serr, deleteVars, aret, clientVars, functionVars, run,
                    monitorVars >>

\* AddRepository after SyncRepository returned: on an error the row is made
\* inactive and the error returned, otherwise last_sync_time is set
AddFinish ==
    /\ apc = "sync"
    /\ spc["api"] = "none"
    /\ IF serr["api"] # ""
       THEN monitored' = RemoveMonitoredRepository(monitored, acall.full)
       ELSE monitored' = UpdateMonitoredRepositorySync(monitored, acall.full, now)
    /\ apc' = "idle"
    /\ acall' = NoAdd
    /\ aret' = [acall EXCEPT !.err = serr["api"]]
    /\ UNCHANGED << now, queueVars, workerVars, storeVars, syncVars, history,
                    serr, deleteVars, monSeq, clientVars, functionVars, run,
                    monitorVars >>

AddRepository ==
    \/ \E full \in MonitorNames : AddStart(full)
    \/ SyncRepository("api")
    \/ AddFinish

\* SyncWorker.RemoveRepository(owner, name), called by another request
RemoveRepository(full) ==
    /\ monitored' = RemoveMonitoredRepository(monitored, full)
    /\ acall' = IF apc # "idle" /\ acall.full = full
                THEN [acall EXCEPT !.disturbed = TRUE] ELSE acall
    /\ UNCHANGED << now, queueVars, workerVars, storeVars, syncVars, history,
                    serr, deleteVars, monSeq, apc, aret, clientVars, functionVars, run,
                    monitorVars >>

\* ------------------------------------------------------- github.Client
\* a response header that is not there
NoHeader == 0 - 1
\* a header whose value is not a number
Unparseable == 0 - 2

\* The replies the upstream may give at time t: 200 with quota left, 200
\* with the last unit of quota used, 403 for an exhausted quota, 403 for
\* another reason, 404 without rate-limit headers, 200 with headers that
\* are no numbers.
Responses(t) ==
    {[status |-> 200, remaining |-> 5, reset |-> NoHeader, limit |-> 5000],
     [status |-> 200, remaining |-> 0, reset |-> t + 1, limit |-> NoHeader],
     [status |-> 403, remaining |-> 0, reset |-> t + 1, limit |-> 5000],
     [status |-> 403, remaining |-> 5, reset |-> NoHeader, limit |-> NoHeader],
     [status |-> 404, remaining |-> NoHeader, reset |-> NoHeader,
      limit |-> NoHeader],
     [status |-> 200, remaining |-> Unparseable, reset |-> Unparseable,
      limit |-> Unparseable]}

\* what no step of the client touches
nonClientVars ==
    << now, queueVars, workerVars, storeVars, syncVars, history, serr,
       deleteVars, monitoredVars, addVars, monitorVars, functionVars, run >>
\* everything but functionVars
programVars ==
    << now, queueVars, workerVars, storeVars, syncVars, history, serr,
       deleteVars, monitoredVars, addVars, clientVars, monitorVars >>

\* GetRepository is called with a fresh context
ClientStart(c) ==
    /\ cpc[c] \in {"idle", "done"}
    /\ cpc' = [cpc EXCEPT ![c] = "check"]
    /\ ccall' = [ccall EXCEPT ![c] = NoRequest]
    /\ UNCHANGED << nonClientVars, rateLimit, rlock, wlock >>

\* variant: the gate never waits
ShouldWaitNever(rl) == FALSE

\* checkRateLimit: Remaining == 0 and time.Until(Reset) > 0
ShouldWait(rl) == rl.Remaining = 0 /\ rl.Reset - now > 0

\* checkRateLimit, up to the select: the caller takes the read lock, for
\* which it waits while a writer holds the lock, and
\* either goes on or starts the timer that ends at Reset
checkRateLimit(c) ==
    /\ cpc[c] = "check"
    /\ wlock = ""
    /\ LET seen == [ccall[c] EXCEPT
                       !.gated = rateLimit.Remaining = 0 /\ rateLimit.Reset > now,
                       !.reset = rateLimit.Reset]
       IN IF ShouldWait(rateLimit)
          THEN /\ cpc' = [cpc EXCEPT ![c] = "wait"]
               /\ rlock' = rlock \cup {c}
               /\ ccall' = [ccall EXCEPT ![c] = [seen EXCEPT !.wake = rateLimit.Reset]]
          ELSE /\ cpc' = [cpc EXCEPT ![c] = "do"]
               /\ ccall' = [ccall EXCEPT ![c] = seen]
               /\ UNCHANGED rlock
    /\ UNCHANGED << nonClientVars, rateLimit, wlock >>

\* the select of checkRateLimit: ctx.Done() gives ctx.Err(), the timer lets
\* the request go on; with both ready either may be taken
GateWait(c) ==
    /\ cpc[c] = "wait"
    /\ rlock' = rlock \ {c}
    /\ \/ /\ ccall[c].cancelled
          /\ cpc' = [cpc EXCEPT ![c] = "done"]
          /\ ccall' = [ccall EXCEPT ![c].err = "context canceled"]
       \/ /\ now >= ccall[c].wake
          /\ cpc' = [cpc EXCEPT ![c] = "do"]
          /\ UNCHANGED ccall
    /\ UNCHANGED << nonClientVars, rateLimit, wlock >>

\* variant: the request is sent whatever its context says
RequestContextIgnored(call) == FALSE

\* the request carries ctx (NewRequestWithContext): httpClient.Do sends
\* nothing for a context that is done
RequestContextDone(call) == call.cancelled

\* c.httpClient.Do(req): one request, answered by an error or a response
Do(c) ==
    /\ cpc[c] = "do"
    /\ IF RequestContextDone(ccall[c])
       THEN /\ cpc' = [cpc EXCEPT ![c] = "done"]
            /\ ccall' = [ccall EXCEPT ![c].err = "context canceled"]
       ELSE LET sent == [ccall[c] EXCEPT !.sent = @ + 1, !.sentAt = now] IN
            \/ /\ cpc' = [cpc EXCEPT ![c] = "done"]
               /\ ccall' = [ccall EXCEPT ![c] = [sent EXCEPT !.err = "transport error"]]
            \/ \E resp \in Responses(now) :
                  /\ cpc' = [cpc EXCEPT ![c] = "update"]
                  /\ ccall' = [ccall EXCEPT ![c] = [sent EXCEPT !.resp = resp]]
    /\ UNCHANGED << nonClientVars, rateLimit, rlock, wlock >>

\* strconv.Atoi / ParseInt succeed on the header: it is there and a number
Parses(header) == header # NoHeader /\ header # Unparseable

\* variant: a header that is missing or no number sets the field to zero
updateRateLimitZeroing(rl, resp) ==
    [Remaining |-> IF Parses(resp.remaining) THEN resp.remaining ELSE 0,
     Reset |-> IF Parses(resp.reset) THEN resp.reset ELSE 0,
     Limit |-> IF Parses(resp.limit) THEN resp.limit ELSE 0]

\* updateRateLimit: the headers that are there and parse replace the cached
\* values, the other fields stay
updateRateLimit(rl, resp) ==
    [Remaining |-> IF Parses(resp.remaining) THEN resp.remaining
                   ELSE rl.Remaining,
     Reset |-> IF Parses(resp.reset) THEN resp.reset ELSE rl.Reset,
     Limit |-> IF Parses(resp.limit) THEN resp.limit ELSE rl.Limit]

\* variant: a 403 is reported like every other status
ResponseErrorPlain(resp) ==
    IF resp.status # 200 THEN "unexpected status code" ELSE ""

\* doRequest and GetRepository on a response: 403 with Remaining 0 is the
\* rate-limit error, another status but 200 an error, 200 the repository
ResponseError(resp) ==
    IF resp.status = 403 /\ resp.remaining = 0 THEN "rate limit exceeded"
    ELSE IF resp.status # 200 THEN "unexpected status code"
    ELSE ""

\* updateRateLimit, c.rateLimitMu.Lock(): granted once no reader and no
\* writer holds the lock
UpdateLock(c) ==
    /\ cpc[c] = "update"
    /\ rlock = {}
    /\ wlock = ""
    /\ wlock' = c
    /\ cpc' = [cpc EXCEPT ![c] = "write"]
    /\ UNCHANGED << nonClientVars, rateLimit, rlock, ccall >>

\* updateRateLimit writes the snapshot and unlocks; then doRequest and
\* GetRepository decide the result, unless the reply is 403 with
\* X-RateLimit-Remaining "0", whose error message is built next
HandleResponse(c) ==
    /\ cpc[c] = "write"
    /\ wlock = c
    /\ rateLimit' = updateRateLimit(rateLimit, ccall[c].resp)
    /\ wlock' = ""
    /\ IF ResponseError(ccall[c].resp) = "rate limit exceeded"
       THEN /\ cpc' = [cpc EXCEPT ![c] = "format"]
            /\ UNCHANGED ccall
       ELSE /\ cpc' = [cpc EXCEPT ![c] = "done"]
            /\ ccall' = [ccall EXCEPT ![c].err = ResponseError(ccall[c].resp)]
    /\ UNCHANGED << nonClientVars, rlock >>

\* The values a read of c.rateLimit.Reset outside the lock may yield: the
\* stored one, or, while another caller is inside updateRateLimit, the one
\* that caller is writing (the read and the write race).
RacyReset ==
    {rateLimit.Reset} \cup
        (IF wlock = "" THEN {}
         ELSE {updateRateLimit(rateLimit, ccall[wlock].resp).Reset})

\* doRequest on 403 with no quota left: fmt.Errorf("rate limit exceeded,
\* resets at %v", c.rateLimit.Reset), a read of the snapshot with no lock held
FormatError(c) ==
    /\ cpc[c] = "format"
    /\ cpc' = [cpc EXCEPT ![c] = "done"]
    /\ \E reset \in RacyReset :
          ccall' = [ccall EXCEPT ![c].err = "rate limit exceeded",
                                ![c].unlockedReads = @ + 1,
                                ![c].raced = wlock # "",
                                ![c].resetRead = reset]
    /\ UNCHANGED << nonClientVars, rateLimit, rlock, wlock >>

\* GetRateLimitInfo, called between GetRepository calls: under the read
\* lock the three fields are copied into a models.RateLimitInfo
GetRateLimitInfo(c) ==
    /\ cpc[c] \in {"idle", "done"}
    /\ wlock = ""
    /\ ccall' = [ccall EXCEPT ![c].info =
                    [Remaining |-> rateLimit.Remaining,
                     Reset |-> rateLimit.Reset,
                     Limit |-> rateLimit.Limit]]
    /\ UNCHANGED << nonClientVars, rateLimit, rlock, wlock, cpc >>

\* the caller's context is cancelled while the call runs
Cancel(c) ==
    /\ cpc[c] \in {"check", "wait", "do", "update", "write", "format"}
    /\ ~ccall[c].cancelled
    /\ ccall' = [ccall EXCEPT ![c].cancelled = TRUE,
                              ![c].cancelledInGate = cpc[c] = "wait"]
    /\ UNCHANGED << nonClientVars, rateLimit, rlock, wlock, cpc >>

ClientGetRepository(c) ==
    \/ ClientStart(c)
    \/ checkRateLimit(c)
    \/ GateWait(c)
    \/ Do(c)
    \/ UpdateLock(c)
    \/ HandleResponse(c)
    \/ FormatError(c)

\* -------------------------------------------------- JobWorker.processNextJob
\* handleSyncJob: SyncRepository(ctx, owner, repo, time.Time{})
handleSyncJob(job) == SyncCall(job.repo, ZeroTime)

\* handleResyncJob: SyncRepository(ctx, owner, repo, now - 7 days)
handleResyncJob(job) == SyncCall(job.repo, now - SevenDays)

\* ------------------------------------------------------- NewSyncWorker
\* The values of cfg.GitHub.Interval, in seconds: unset, negative, short,
\* and around one hour.
Intervals ==
    ((0 - MaxInterval)..MaxInterval)
        \cup {Hour - 1, Hour, Hour + 1, 2 * Hour}

\* the syncInterval field NewSyncWorker sets for the interval it is given
syncIntervalOf(syncInterval) ==
    IF syncInterval <= 0 THEN Hour ELSE syncInterval

\* main builds the worker from the configured interval
NewSyncWorker ==
    /\ sw.pc = "none"
    /\ \E interval \in Intervals :
          sw' = [sw EXCEPT !.pc = "built", !.configured = interval,
                           !.syncInterval = syncIntervalOf(interval)]
    /\ UNCHANGED << programVars, run, calc, gc >>

\* Start: ticker := time.NewTicker(w.syncInterval)
StartTicker ==
    /\ sw.pc = "built"
    /\ sw' = [sw EXCEPT !.pc = "started", !.ticker = sw.syncInterval]
    /\ UNCHANGED << programVars, run, calc, gc >>

\* --------------------------------------------------- Client.GetCommits
\* perPage := 100
perPage == 100

\* The sizes of the page the upstream returns for a request: empty, short,
\* or full; after MaxPages - 1 full pages the upstream has no full page left.
PageSizes(page) ==
    {0, 1, perPage - 1} \cup (IF page < MaxPages THEN {perPage} ELSE {})

\* the body of the reply to the request for a page, size commits long
UpstreamPage(page, size) ==
    [i \in 1..size |->
        [sha |-> (page - 1) * perPage + i, html_url |-> "commit",
         node_id |-> "n"]]

\* the conversion of one decoded commit to models.CommitResponse
ModelCommit(commit) == [sha |-> commit.sha, html_url |-> commit.html_url]

\* for _, commit := range pageCommits: the converted commits, in order
ModelCommits(pageCommits) ==
    [i \in 1..Len(pageCommits) |-> ModelCommit(pageCommits[i])]

\* variant: the loop ends only on an empty page
LastPageEmpty(len) == len = 0

\* if len(pageCommits) < perPage { break }
LastPage(len) == len < perPage

\* GetCommits is called: page := 1, allCommits empty
GetCommitsStart ==
    /\ gc.pc = "idle"
    /\ gc' = [NoGetCommits EXCEPT !.pc = "request", !.page = 1,
                                  !.cancelled = gc.cancelled]
    /\ UNCHANGED << programVars, run, calc, sw >>

\* the request for the current page is built and handed to doRequest, which
\* returns an error (always so once the context is done) or a response
GetCommitsRequest ==
    /\ gc.pc = "request"
    /\ LET sent == [gc EXCEPT !.requests =
                        Append(@, [page |-> gc.page, per_page |-> perPage])]
       IN  \/ gc' = [sent EXCEPT !.pc = "done", !.err = "executing request",
                                 !.allCommits = << >>]
           \/ /\ ~gc.cancelled
              /\ \E status \in {200, 500}, size \in PageSizes(gc.page) :
                    gc' = [sent EXCEPT !.pc = "response", !.status = status,
                                       !.pageCommits =
                                           UpstreamPage(gc.page, size)]
    /\ UNCHANGED << programVars, run, calc, sw >>

\* the status is checked, the body decoded and its commits appended
GetCommitsDecode ==
    /\ gc.pc = "response"
    /\ IF gc.status # 200
       THEN gc' = [gc EXCEPT !.pc = "done", !.err = "unexpected status code",
                             !.allCommits = << >>, !.pageCommits = << >>]
       ELSE gc' = [gc EXCEPT !.pc = "check",
                             !.allCommits = @ \o ModelCommits(gc.pageCommits),
                             !.pages = Append(@, gc.pageCommits)]
    /\ UNCHANGED << programVars, run, calc, sw >>

\* a short page ends the loop; otherwise checkRateLimit, which may return
\* the context's error once the context is done, and page++
GetCommitsCheck ==
    /\ gc.pc = "check"
    /\ IF LastPage(Len(gc.pageCommits))
       THEN gc' = [gc EXCEPT !.pc = "done", !.err = ""]
       ELSE \/ gc' = [gc EXCEPT !.pc = "request", !.page = @ + 1]
            \/ /\ gc.cancelled
               /\ gc' = [gc EXCEPT !.pc = "done",
                                   !.err = "rate limit check for next page",
                                   !.allCommits = << >>]
    /\ UNCHANGED << programVars, run, calc, sw >>

\* the caller's context is cancelled
GetCommitsCancel ==
    /\ gc.pc # "idle"
    /\ ~gc.cancelled
    /\ gc' = [gc EXCEPT !.cancelled = TRUE]
    /\ UNCHANGED << programVars, run, calc, sw >>

ClientGetCommits ==
    \/ GetCommitsStart
    \/ GetCommitsRequest
    \/ GetCommitsDecode
    \/ GetCommitsCheck

\* ------------------------------------------- JobWorker.calculateBackoff
\* Durations inside calculateBackoff are counted in hundredths of a second,
\* so that a tenth of a backoff of whole seconds is a whole number.
Second == 100

RECURSIVE Pow(_, _)
\* math.Pow(base, n) for a whole n >= 0
Pow(base, n) == IF n = 0 THEN 1 ELSE base * Pow(base, n - 1)

\* the values of rand.Float64() the model draws, in tenths: 0.0, 0.1, .. 0.9
RandTenths == 0..9

\* variant: the sum is returned without the cap
calculateBackoffUncapped(job, rnd) ==
    LET initialBackoff ==
            IF job.initial_backoff = 0 THEN DefaultInitialBackoff
            ELSE job.initial_backoff
        backoff ==
            initialBackoff * Second * Pow(DefaultBackoffFactor, job.retry_count)
        jitter == rnd * (backoff \div (10 * DefaultJitterFactorInverse))
    IN  backoff + jitter

\* calculateBackoff(job) when rand.Float64() returns rnd / 10: the job's
\* initial backoff (the default if zero) times 2^RetryCount, plus the
\* jitter, capped at DefaultMaxBackoff
calculateBackoff(job, rnd) ==
    LET initialBackoff ==
            IF job.initial_backoff = 0 THEN DefaultInitialBackoff
            ELSE job.initial_backoff
        backoff ==
            initialBackoff * Second * Pow(DefaultBackoffFactor, job.retry_count)
        jitter == rnd * (backoff \div (10 * DefaultJitterFactorInverse))
    IN  IF backoff + jitter > DefaultMaxBackoff * Second
        THEN DefaultMaxBackoff * Second
        ELSE backoff + jitter

\* The initial backoffs, in seconds, of the jobs given to calculateBackoff:
\* zero as in a struct built by hand, small ones, and ones at and beyond the
\* cap.
InitialBackoffs == {0, 1, 2, 4, 1800, 3600, 4000}

\* a job before its first failure
InitBackoff ==
    /\ InitProcess
    /\ monitored = {}
    /\ monSeq = 0
    /\ \E ib \in InitialBackoffs : calc = [NoCalc EXCEPT !.initial_backoff = ib]
    /\ gc = NoGetCommits
    /\ sw = NoSyncWorker

\* job_worker.go:129-131 over the failures of one job: RetryCount is
\* incremented and calculateBackoff called; beside the value returned the
\* value without jitter is kept
CalculateBackoff ==
    /\ calc.retry_count < MaxRetryCount
    /\ \E rnd \in RandTenths :
          LET job == [calc EXCEPT !.retry_count = @ + 1] IN
          calc' = [job EXCEPT !.out = calculateBackoff(job, rnd),
                              !.plain = Append(@, calculateBackoff(job, 0)),
                              !.initial_backoff =
                                  IF @ = 0 THEN DefaultInitialBackoff ELSE @]
    /\ UNCHANGED << programVars, run, gc, sw >>

\* the switch on job.Type: sync and resync call the service, every other
\* type is an error
Dispatch(w) ==
    /\ wpc[w] = "dispatch"
    /\ IF wjob[w].type \in {JobTypeSync, JobTypeResync}
       THEN /\ wpc' = [wpc EXCEPT ![w] = "handling"]
            /\ spc' = [spc EXCEPT ![w] = "GetRepository"]
            /\ sync' = [sync EXCEPT ![w] =
                          IF wjob[w].type = JobTypeSync
                          THEN handleSyncJob(wjob[w])
                          ELSE handleResyncJob(wjob[w])]
            /\ UNCHANGED << werr, history >>
       ELSE /\ wpc' = [wpc EXCEPT ![w] = "processed"]
            /\ werr' = [werr EXCEPT ![w] = "unknown job type"]
            /\ history' = Record(history, wjob[w].id, "error")
            /\ UNCHANGED << spc, sync >>
    /\ UNCHANGED << now, queueVars, wjob, storeVars, lastSync, serr,
                    extVars >>

\* variant: the test of processErr inverted
SettleInverted(rel, job, processErr) ==
    IF processErr = ""
    THEN Fail(rel, job.id, processErr)
    ELSE Complete(rel, job.id)

\* variant: neither Complete nor Fail is called
SettleDropped(rel, job, processErr) == rel

\* what processNextJob does to the jobs relation once processErr is known
Settle(rel, job, processErr) ==
    IF processErr # ""
    THEN IF job.retry_count >= job.max_retries
         THEN Fail(rel, job.id, "max retries reached")
         ELSE Fail(rel, job.id, processErr)
    ELSE Complete(rel, job.id)

\* the tail of processNextJob: Fail on an error, Complete otherwise, and
\* the return to the loop of Start that called it
Finish(w) ==
    /\ wpc[w] = "processed"
    /\ jobs' = Settle(jobs, wjob[w], werr[w])
    /\ history' = Record(history, wjob[w].id, jobs'[wjob[w].id].status)
    /\ wpc' = [wpc EXCEPT ![w] = "idle"]
    /\ wjob' = [wjob EXCEPT ![w] = NoJob]
    /\ werr' = [werr EXCEPT ![w] = ""]
    /\ run' = [run EXCEPT !.loop[w] = IF @ = "default" THEN "sleep" ELSE @]
    /\ UNCHANGED << now, locked, enqueued, storeVars, syncVars, serr,
                    deleteVars, monitoredVars, addVars, clientVars,
                    monitorVars, functionVars >>

\* The goroutine (or the process) of worker w ends inside processNextJob: an
\* open transaction is rolled back by the server (the deferred tx.Rollback
\* or the closed connection), a call in progress is abandoned, and neither
\* Complete nor Fail is called.  The Job struct stays in the model to tell
\* which job the worker held.
Crash(w) ==
    /\ wpc[w] \in {"commit", "dispatch", "handling", "processed"}
    /\ wpc' = [wpc EXCEPT ![w] = "crashed"]
    /\ IF wpc[w] = "commit"
       THEN /\ locked' = locked \ {wjob[w].id}
            /\ wjob' = [wjob EXCEPT ![w] = NoJob]
       ELSE UNCHANGED << locked, wjob >>
    /\ spc' = [spc EXCEPT ![w] = "none"]
    /\ sync' = [sync EXCEPT ![w] = NoSync]
    /\ UNCHANGED << now, jobs, enqueued, werr, storeVars, lastSync, history,
                    serr, extVars >>

processNextJob(w) ==
    \/ Dequeue(w)
    \/ DequeueCommit(w)
    \/ Dispatch(w)
    \/ SyncRepository(w)
    \/ Finish(w)

\* -------------------------------------------------------- specifications
Next ==
    \/ Tick
    \/ \E job \in AppJobs : Enqueue(job)
    \/ \E w \in Workers : processNextJob(w)

Spec == Init /\ [][Next]_vars


\* ---------------------------------------------------------------------
\* The worker loops: JobWorker.Start and Stop, Pool.Start, worker and Stop
\* ---------------------------------------------------------------------

\* variant: the select of Start has no case for the stop channel
StartIgnoresStop(w) ==
    \/ /\ run.loop[w] = "none"
       /\ run' = [run EXCEPT !.loop[w] = "select"]
       /\ UNCHANGED << programVars, functionVars >>
    \/ /\ run.loop[w] = "select"
       /\ run' = [run EXCEPT !.loop[w] =
                     IF run.ctx THEN "returned" ELSE "default"]
       /\ UNCHANGED << programVars, functionVars >>
    \/ /\ run.loop[w] = "default"
       /\ processNextJob(w)
    \/ /\ run.loop[w] = "sleep"
       /\ run' = [run EXCEPT !.loop[w] = "select"]
       /\ UNCHANGED << programVars, functionVars >>

\* JobWorker.Start(ctx): `go jobWorker.Start(ctx)` enters the loop; the
\* select returns when ctx is done or the stop channel is closed and takes
\* default only when neither is; default calls processNextJob and then
\* sleeps a second before the next select
Start(w) ==
    \/ /\ run.loop[w] = "none"
       /\ run' = [run EXCEPT !.loop[w] = "select"]
       /\ UNCHANGED << programVars, functionVars >>
    \/ /\ run.loop[w] = "select"
       /\ run' = [run EXCEPT !.loop[w] =
                     IF run.ctx \/ run.stop THEN "returned" ELSE "default"]
       /\ UNCHANGED << programVars, functionVars >>
    \/ /\ run.loop[w] = "default"
       /\ processNextJob(w)
    \/ /\ run.loop[w] = "sleep"
       /\ run' = [run EXCEPT !.loop[w] = "select"]
       /\ UNCHANGED << programVars, functionVars >>

\* the context handed to Start and to Pool.Start is cancelled (the signal
\* of signal.NotifyContext, or the deferred stop)
ContextCancel ==
    /\ ~run.ctx
    /\ run' = [run EXCEPT !.ctx = TRUE]
    /\ UNCHANGED << programVars, functionVars >>

\* JobWorker.Stop: close(w.stop)
Stop ==
    /\ ~run.stop
    /\ run' = [run EXCEPT !.stop = TRUE]
    /\ UNCHANGED << programVars, functionVars >>

\* Pool.Start(ctx): wg.Add(1) and `go p.worker(ctx, i)` for each worker
PoolStart ==
    /\ run.pstop = "none"
    /\ \A i \in PoolWorkers : run.pool[i] = "none"
    /\ run' = [run EXCEPT !.wg = Cardinality(PoolWorkers),
                          !.pool = [i \in PoolWorkers |-> "select"]]
    /\ UNCHANGED << programVars, functionVars >>

\* Pool.worker(ctx, id): the select returns, running the deferred wg.Done,
\* when ctx is done or stopChan is closed, and takes default only when
\* neither is; default calls p.processNextJob, which returns (what it does
\* to the queue is not followed here)
worker(i) ==
    /\ \/ /\ run.pool[i] = "select"
          /\ run' = IF run.ctx \/ run.stopChan
                    THEN [run EXCEPT !.pool[i] = "returned", !.wg = @ - 1]
                    ELSE [run EXCEPT !.pool[i] = "default"]
       \/ /\ run.pool[i] = "default"
          /\ run' = [run EXCEPT !.pool[i] = "select"]
    /\ UNCHANGED << programVars, functionVars >>

\* Pool.Stop: close(p.stopChan), then wg.Wait() returns once the counter
\* is at zero
PoolStop ==
    /\ \/ /\ run.pstop = "none"
          /\ run' = [run EXCEPT !.stopChan = TRUE, !.pstop = "wait"]
       \/ /\ run.pstop = "wait"
          /\ run.wg = 0
          /\ run' = [run EXCEPT !.pstop = "returned"]
    /\ UNCHANGED << programVars, functionVars >>

\* the job worker of cmd/main in its loop and a pool of workers, with the
\* calls that end them
NextStop ==
    \/ \E job \in AppJobs : Enqueue(job)
    \/ Start("w1")
    \/ ContextCancel
    \/ Stop
    \/ PoolStart
    \/ \E i \in PoolWorkers : worker(i)
    \/ PoolStop

SpecStop == Init /\ [][NextStop]_vars

\* the queue and its workers, any of which may end inside processNextJob
NextCrash ==
    \/ Next
    \/ \E w \in Workers : Crash(w)

SpecCrash == Init /\ [][NextCrash]_vars

\* calculateBackoff on its own, over the failures of one job
NextBackoff == CalculateBackoff

SpecBackoff == InitBackoff /\ [][NextBackoff]_vars

\* the monitor is built and started
NextInterval ==
    \/ NewSyncWorker
    \/ StartTicker

SpecInterval == Init /\ [][NextInterval]_vars

\* one caller in Client.GetCommits, whose context may be cancelled; a call is
\* a goroutine that runs on as long as it has a step to take
NextCommits ==
    \/ ClientGetCommits
    \/ GetCommitsCancel

SpecCommits == Init /\ [][NextCommits]_vars /\ WF_vars(ClientGetCommits)

\* One job worker, as cmd/main starts it: calls of SyncRepository follow
\* one another.
NextOne ==
    \/ Tick
    \/ \E job \in AppJobs : Enqueue(job)
    \/ processNextJob("w1")

SpecOne == Init /\ [][NextOne]_vars

\* the queue and the job worker of cmd/main, whose loop goes on as long as it
\* has a step to take: Start calls processNextJob again and again, and a
\* call in progress returns
SpecLive == Init /\ [][NextOne]_vars /\ WF_vars(processNextJob("w1"))

\* One job worker and an API handler that deletes repositories while syncs
\* run.
NextDelete ==
    \/ NextOne
    \/ DeleteRepository

SpecDelete == Init /\ [][NextDelete]_vars

\* ---------------------------------------------------------------------
\* The monitor: SyncWorker.Start and SyncWorker.syncAll
\* ---------------------------------------------------------------------

\* the seconds beside the monitor; nothing else reads the clock here
TickMonitor ==
    /\ now < MaxMonitorTime
    /\ now' = now + 1
    /\ UNCHANGED << queueVars, workerVars, storeVars, syncVars, history,
                    serr, deleteVars, monitoredVars, addVars, clientVars, functionVars, run,
                    monitorVars >>

\* strings.Split(fullName, "/") on the names of the model
Parts(full) ==
    CASE full = "golang/example" -> << "golang", "example" >>
      [] full = "golang/tools" -> << "golang", "tools" >>
      [] full = "golang/x/y" -> << "golang", "x", "y" >>
      [] OTHER -> << full >>

\* splitRepoName: owner and name, or two empty strings
splitRepoName(full) ==
    IF Len(Parts(full)) = 2 THEN Parts(full) ELSE << "", "" >>

\* the orders in which a SELECT without ORDER BY may return the rows
Orders(rows) ==
    {s \in [1..Cardinality(rows) -> rows] :
        \A i, j \in 1..Cardinality(rows) : s[i] = s[j] => i = j}

\* variant: the loop over the repositories is left after the last attempt
ExhaustedReturns(m) ==
    [pc |-> "idle", m |-> [m EXCEPT !.repos = << >>,
                                    !.failed = @ \cup {m.full}]]

\* attempt == maxRetries: the error is logged and `continue` ends the retry
\* loop, so the range loop goes on with the next repository
Exhausted(m) ==
    [pc |-> "next", m |-> [m EXCEPT !.repos = Tail(@),
                                    !.failed = @ \cup {m.full}]]

\* variant: the backoff grows with the attempt, not with its square
backoffLinear(attempt) == attempt

\* the backoff before the next attempt, in seconds
backoffDuration(attempt) == attempt * attempt

\* Start calls syncAll, at once and on every tick of the ticker; syncAll
\* fetches the active rows (a failing query, which ends the tick with no
\* list at all, is left out)
SyncAllStart ==
    /\ mpc = "idle"
    /\ ~mon.cancelled
    /\ \E repos \in Orders(GetMonitoredRepositories) :
          mon' = [NoTick EXCEPT !.repos = repos, !.started = TRUE,
                                !.list = {repos[i].full_name :
                                             i \in 1..Len(repos)}]
    /\ mpc' = "next"
    /\ UNCHANGED << now, queueVars, workerVars, storeVars, syncVars, history,
                    serr, deleteVars, monitoredVars, addVars, clientVars, functionVars, run >>

\* for _, repo := range repos: the end of the range, a name that does not
\* split in two, or the first attempt to sync the repository
SyncAllNext ==
    /\ mpc = "next"
    /\ IF mon.repos = << >>
       THEN /\ mpc' = "idle"
            /\ mon' = mon
            /\ UNCHANGED << spc, sync >>
       ELSE LET repo == Head(mon.repos)
                split == splitRepoName(repo.full_name)
            IN  IF split[1] = "" \/ split[2] = ""
                THEN /\ mpc' = "next"
                     /\ mon' = [mon EXCEPT !.repos = Tail(@)]
                     /\ UNCHANGED << spc, sync >>
                ELSE /\ mpc' = "sync"
                     /\ mon' = [mon EXCEPT !.full = repo.full_name,
                                           !.attempt = 1,
                                           !.tried = Append(@, repo.full_name)]
                     /\ spc' = [spc EXCEPT !["mon"] = "GetRepository"]
                     /\ sync' = [sync EXCEPT !["mon"] =
                                    SyncCall(repo.full_name,
                                             repo.last_sync_time)]
    /\ UNCHANGED << now, queueVars, workerVars, storeVars, lastSync, history,
                    serr, deleteVars, monitoredVars, addVars, clientVars, functionVars, run >>

\* variant: the last failed attempt stamps the row as a success does
SyncAllResultStamps ==
    /\ mpc = "sync"
    /\ spc["mon"] = "none"
    /\ IF serr["mon"] = ""
       THEN /\ monitored' =
                   UpdateMonitoredRepositorySync(monitored, mon.full, now)
            /\ mpc' = "next"
            /\ mon' = [mon EXCEPT !.repos = Tail(@)]
       ELSE IF mon.attempt = 3
       THEN /\ mpc' = Exhausted(mon).pc
            /\ mon' = Exhausted(mon).m
            /\ monitored' =
                   UpdateMonitoredRepositorySync(monitored, mon.full, now)
       ELSE /\ mpc' = "backoff"
            /\ mon' = [mon EXCEPT !.wake = now + backoffDuration(mon.attempt)]
            /\ UNCHANGED monitored
    /\ UNCHANGED << now, queueVars, workerVars, storeVars, syncVars, history,
                    serr, deleteVars, monSeq, addVars, clientVars, functionVars, run >>

\* SyncRepository returned: nil updates last_sync_time and breaks, the last
\* failed attempt goes on with the next repository, any other starts the
\* backoff
SyncAllResult ==
    /\ mpc = "sync"
    /\ spc["mon"] = "none"
    /\ IF serr["mon"] = ""
       THEN /\ monitored' =
                   UpdateMonitoredRepositorySync(monitored, mon.full, now)
            /\ mpc' = "next"
            /\ mon' = [mon EXCEPT !.repos = Tail(@)]
       ELSE IF mon.attempt = 3
       THEN /\ mpc' = Exhausted(mon).pc
            /\ mon' = Exhausted(mon).m
            /\ UNCHANGED monitored
       ELSE /\ mpc' = "backoff"
            /\ mon' = [mon EXCEPT !.wake = now + backoffDuration(mon.attempt)]
            /\ UNCHANGED monitored
    /\ UNCHANGED << now, queueVars, workerVars, storeVars, syncVars, history,
                    serr, deleteVars, monSeq, addVars, clientVars, functionVars, run >>

\* select: the timer fired and the next attempt starts, or the context is
\* done and syncAll returns
SyncAllBackoff ==
    /\ mpc = "backoff"
    /\ \/ /\ now >= mon.wake
          /\ mpc' = "sync"
          /\ mon' = [mon EXCEPT !.attempt = @ + 1]
          /\ spc' = [spc EXCEPT !["mon"] = "GetRepository"]
          /\ sync' = [sync EXCEPT !["mon"] =
                         SyncCall(mon.full, Head(mon.repos).last_sync_time)]
       \/ /\ mon.cancelled
          /\ mpc' = "idle"
          /\ mon' = [mon EXCEPT !.aborted = TRUE]
          /\ UNCHANGED << spc, sync >>
    /\ UNCHANGED << now, queueVars, workerVars, storeVars, lastSync, history,
                    serr, deleteVars, monitoredVars, addVars, clientVars, functionVars, run >>

syncAll ==
    \/ SyncAllStart
    \/ SyncAllNext
    \/ SyncRepository("mon")
    \/ SyncAllResult
    \/ SyncAllBackoff

\* the context handed to Start is cancelled (main defers cancel)
MonitorCancel ==
    /\ ~mon.cancelled
    /\ mon' = [mon EXCEPT !.cancelled = TRUE]
    /\ UNCHANGED << now, queueVars, workerVars, storeVars, syncVars, history,
                    serr, deleteVars, monitoredVars, addVars, clientVars, functionVars, run,
                    mpc >>

\* The API handlers that add repositories to the monitored set and remove
\* them from it.
NextAdd ==
    \/ Tick
    \/ AddRepository
    \/ \E full \in MonitorNames : RemoveRepository(full)

SpecAdd == Init /\ [][NextAdd]_vars

\* The upstream client alone, called by two goroutines.
NextClient ==
    \/ Tick
    \/ \E c \in Clients : ClientGetRepository(c)
    \/ \E c \in Clients : Cancel(c)

SpecClient == Init /\ [][NextClient]_vars

\* the callers of GetRepository, which also ask for the snapshot
NextInfo ==
    \/ NextClient
    \/ \E c \in Clients : GetRateLimitInfo(c)

SpecInfo == Init /\ [][NextInfo]_vars

\* the monitor alone on a store with monitored repositories
NextMonitor ==
    \/ TickMonitor
    \/ syncAll
    \/ MonitorCancel

SpecMonitor == InitMonitor /\ [][NextMonitor]_vars

\* the monitor beside the API handler that removes repositories from the
\* monitored set
NextRemove ==
    \/ Tick
    \/ syncAll
    \/ \E full \in MonitorNames : RemoveRepository(full)

SpecRemove == InitMonitor /\ [][NextRemove]_vars

\* The queue alone, Enqueue called with whatever a caller may put in the
\* struct: an id of its own, a status and retry count, any retry
\* configuration.
AnyJobs ==
    {[id |-> i, type |-> JobTypeSync, status |-> st.status, repo |-> r,
      retry_count |-> st.retry_count, max_retries |-> m,
      initial_backoff |-> b] :
        i \in {EmptyID} \cup JobIds,
        st \in {[status |-> "", retry_count |-> 0],
                 [status |-> JobStatusComplete, retry_count |-> 7]},
        r \in UpstreamRepos,
        m \in {0 - 1, 0, 2},
        b \in {0 - 1, 0, 5}}

NextEnqueue == \E job \in AnyJobs : Enqueue(job)

SpecEnqueue == Init /\ [][NextEnqueue]_vars

TypeOK ==
    /\ now \in 0..MaxTime
    /\ DOMAIN jobs \subseteq JobIds
    /\ \A j \in DOMAIN jobs : jobs[j].status \in JobStatuses
    /\ locked \subseteq DOMAIN jobs

\* ------------------------------------------------------------ observations
Count(seq, e) == Cardinality({i \in 1..Len(seq) : seq[i] = e})

IsStatus(e) == e \in JobStatuses

\* the statuses written to the row of job j, in order
StatusesWritten(j) == SelectSeq(history[j], IsStatus)

\* how often a Dequeue has returned job j
Dispatches(j) == Count(history[j], JobStatusRunning)

\* the workers that hold job j: Dequeue returned it to them and they have
\* neither completed nor failed it yet
Holders(j) ==
    {w \in Workers : wpc[w] \in {"dispatch", "handling", "processed"}
                     /\ wjob[w].id = j}

Terminal(status) == status \in {JobStatusComplete, JobStatusStopped}

\* no worker is in processNextJob and a Dequeue would find no row
Quiescent == (\A w \in Workers : wpc[w] = "idle") /\ DequeueSelect = {}

\* no handler has returned an error so far
NoErrorYet == \A j \in JobIds : Count(history[j], "error") = 0

\* the persisted rows without the bookkeeping timestamp last_commit_check
StoreView ==
    [repositories |->
         {[id |-> r.id, github_id |-> r.github_id, full_name |-> r.full_name,
           commits_since |-> r.commits_since] : r \in repositories},
     commits |-> commits]

\* ------------------------------------------------------------------ claims

\* C1: under any interleaving of concurrent Dequeue calls a job is held by
\* at most one worker at a time, and a job that has made no terminal
\* transition has been returned by at most one Dequeue call.
C1_AtMostOnceDispatch ==
    \A j \in DOMAIN jobs :
        /\ Cardinality(Holders(j)) <= 1
        /\ ~Terminal(jobs[j].status) => Dispatches(j) <= 1

\* two Dequeue transactions are open at once, on different rows
C1_Witness ==
    /\ wpc["w1"] = "commit"
    /\ wpc["w2"] = "commit"
    /\ wjob["w1"].id # wjob["w2"].id

\* C2: a status complete or stopped written to a job's row is the last
\* status ever written to it, and the row keeps it: no later Enqueue,
\* Dequeue, Complete, Fail or worker step changes it.
C2_TerminalAbsorbing ==
    \A j \in DOMAIN jobs :
        LET written == StatusesWritten(j) IN
        /\ Len(written) >= 1
        /\ jobs[j].status = written[Len(written)]
        /\ \A i \in 1..(Len(written) - 1) : ~Terminal(written[i])

\* a job is complete and another job was settled strictly later
C2_Witness ==
    \E j, k \in DOMAIN jobs :
        /\ j # k
        /\ jobs[j].status = JobStatusComplete
        /\ jobs[k].status \in {JobStatusComplete, JobStatusFailed}
        /\ jobs[k].updated_at > jobs[j].updated_at

\* C3 (as claimed): a sync or resync job whose handler attempts all failed
\* and whose retry_count has reached max_retries has the persisted status
\* stopped.
C3_StoppedAtMaxRetries ==
    \A j \in DOMAIN jobs :
        (/\ jobs[j].type \in {JobTypeSync, JobTypeResync}
         /\ Count(history[j], "error") >= 1
         /\ Count(history[j], "nil") = 0
         /\ jobs[j].retry_count = jobs[j].max_retries)
        => jobs[j].status = JobStatusStopped

\* C4 (as claimed): once the workers have come to rest and the retry time
\* has passed, a sync job with max_retries = 3 and initial_backoff = 1 s
\* whose dispatches so far failed once or twice has been dispatched three
\* times and is complete.
C4_ThreeDispatchesThenComplete ==
    \A j \in DOMAIN jobs :
        (/\ Quiescent
         /\ jobs[j].type = JobTypeSync
         /\ jobs[j].max_retries = 3
         /\ jobs[j].initial_backoff = 1
         /\ Count(history[j], "error") \in {1, 2}
         /\ now >= jobs[j].next_retry_at)
        => (Dispatches(j) = 3 /\ jobs[j].status = JobStatusComplete)

\* C5: the row a Dequeue has selected is pending, every status running was
\* written over a status pending, and nothing is written to a row after
\* failed: a failed job stays failed.
C5_DequeueOnlyPending ==
    /\ \A w \in Workers :
          wpc[w] = "commit" => jobs[wjob[w].id].status = JobStatusPending
    /\ \A j \in DOMAIN jobs :
          LET written == StatusesWritten(j) IN
          \A i \in 1..Len(written) :
              /\ written[i] = JobStatusRunning =>
                    (i > 1 /\ written[i - 1] = JobStatusPending)
              /\ written[i] = JobStatusFailed => i = Len(written)

\* a Dequeue has selected a job while an older job sits in failed
C5_Witness ==
    \E w \in Workers : \E j \in DOMAIN jobs :
        /\ wpc[w] = "commit"
        /\ jobs[j].status = JobStatusFailed
        /\ jobs[j].created_at < wjob[w].created_at

C7_EnqueueNormalises ==
    (enqueued.arg # NoJob /\ ~enqueued.err) =>
        LET id == enqueued.job.id
            arg == enqueued.arg
        IN /\ id # EmptyID
           /\ id \in DOMAIN jobs
           /\ jobs[id].status = JobStatusPending
           /\ jobs[id].retry_count = 0
           /\ jobs[id].max_retries =
                 IF arg.max_retries > 0 THEN arg.max_retries ELSE 3
           /\ jobs[id].initial_backoff =
                 IF arg.initial_backoff > 0 THEN arg.initial_backoff ELSE 1

\* an Enqueue succeeded for a struct with a status, a retry count, a
\* negative max_retries and a custom backoff
C7_Witness ==
    /\ enqueued.arg # NoJob
    /\ ~enqueued.err
    /\ enqueued.arg.status = JobStatusComplete
    /\ enqueued.arg.retry_count = 7
    /\ enqueued.arg.max_retries < 0
    /\ enqueued.arg.initial_backoff = 5

\* C8: a job whose handler returned nil has gone through pending, running
\* and then complete and nothing else: Complete is called for it (the
\* worker that got nil is about to call it) and Fail never is.
C8_SuccessCompletes ==
    \A j \in JobIds :
        Count(history[j], "nil") > 0 =>
            \/ history[j] =
                 << JobStatusPending, JobStatusRunning, "nil", JobStatusComplete >>
            \/ /\ history[j] = << JobStatusPending, JobStatusRunning, "nil" >>
               /\ \E w \in Workers :
                     wpc[w] = "processed" /\ wjob[w].id = j /\ werr[w] = ""

\* a job whose SyncRepository call succeeded is complete
C8_Witness ==
    \E j \in DOMAIN jobs :
        /\ jobs[j].type = JobTypeSync
        /\ jobs[j].status = JobStatusComplete
        /\ history[j] =
             << JobStatusPending, JobStatusRunning, "nil", JobStatusComplete >>

\* C9: with calls of SyncRepository following one another, a call that
\* follows a successful call with the same owner, name and since changes no
\* repository row and no commit row (last_commit_check aside) at any of its
\* steps and returns nil unless the upstream request itself fails; and as
\* long as no handler has failed, every call returns nil unless the upstream
\* request fails.
C9_RepeatedSyncIsNoOp ==
    [][\A p \in Workers :
          /\ (spc[p] # "none" /\ sync[p].again) =>
                 /\ StoreView' = StoreView
                 /\ spc'[p] = "none" => werr'[p] \in {""} \cup UpstreamErrors
          /\ (spc[p] # "none" /\ spc'[p] = "none" /\ NoErrorYet) =>
                 werr'[p] \in {""} \cup UpstreamErrors]_vars

\* a repeated call has returned nil
C9_Witness == lastSync.again /\ lastSync.err = ""

\* C10: no two commit rows share (repository_id, sha), and a repository
\* never holds more commit rows than the upstream has commits for it, so
\* ingesting a page that is stored already adds no row.
C10_UniqueCommits ==
    /\ \A a, b \in commits :
          (a.repository_id = b.repository_id /\ a.sha = b.sha) => a = b
    /\ \A r \in repositories :
          Cardinality({c \in commits : c.repository_id = r.id})
              <= Len(UpstreamCommits(r.full_name))

\* two callers are about to insert the same commit of the same repository
C10_Witness ==
    /\ spc["w1"] = "CreateCommit"
    /\ spc["w2"] = "CreateCommit"
    /\ sync["w1"].repoID = sync["w2"].repoID
    /\ Head(sync["w1"].commits).sha = Head(sync["w2"].commits).sha

\* C11 (as claimed): when two SyncRepository calls race to insert the same
\* commit, the uniqueness conflict of the loser is treated as success: no
\* call returns the error of a CreateCommit.
C11_ConflictIsSuccess ==
    \A w \in Workers : wpc[w] = "processed" => werr[w] # "CommitError"

\* C12 (as claimed): a repository row written by a SyncRepository call is
\* visible only together with all commits that call fetched: a row whose
\* creating call has not finished (last_commit_check still NULL) is seen
\* only while that call has stored every fetched commit and is about to
\* finish; never while it is fetching or storing, nor after it failed.
C12_SyncAtomic ==
    \A r \in repositories :
        r.last_commit_check = NullTime =>
            \E p \in Workers :
                spc[p] = "UpdateLastCommitCheck" /\ sync[p].repoID = r.id

\* C20 (as claimed): a dequeued job of type cleanup is a no-op: its handler
\* returns no error and the job does not end in failed.
C20_CleanupIsNoOp ==
    \A j \in DOMAIN jobs :
        jobs[j].type = JobTypeCleanup =>
            /\ Count(history[j], "error") = 0
            /\ jobs[j].status # JobStatusFailed

\* C13: every commit row's repository_id refers to exactly one repository
\* row, and no commit row refers to a repository that DeleteRepository has
\* deleted, also when the deletion falls into a running SyncRepository of
\* that repository.
C13_CommitsBelongToRepository ==
    /\ \A c \in commits :
          Cardinality({r \in repositories : r.id = c.repository_id}) = 1
    /\ \A id \in deleted :
          {c \in commits : c.repository_id = id} = {}

\* a SyncRepository call is about to insert a commit for a repository that
\* was deleted under it
C13_Witness ==
    \E p \in Workers :
        /\ spc[p] = "CreateCommit"
        /\ sync[p].repoID \in deleted

\* C14: when AddRepository returns for a repository that was not monitored
\* before: if the initial SyncRepository failed, it returns an error and the
\* repository's row is there with is_active = false; if it succeeded (and no
\* RemoveRepository for the same name ran during the call), it returns nil
\* and the row is active with last_sync_time the time at which the call
\* set it, not before the call began.
C14_AddRepositoryOutcome ==
    [][(apc = "sync" /\ apc' = "idle" /\ acall.fresh) =>
          LET rows == {m \in monitored' : m.full_name = acall.full} IN
          /\ rows # {}
          /\ serr["api"] # "" =>
                /\ aret'.err # ""
                /\ \A m \in rows : ~m.is_active
          /\ (serr["api"] = "" /\ ~acall.disturbed) =>
                /\ aret'.err = ""
                /\ \A m \in rows :
                      /\ m.is_active
                      /\ m.last_sync_time = now
                      /\ acall.start <= m.last_sync_time]_vars

\* an AddRepository call for a new repository returned an error after the
\* clock had moved, and the row is inactive
C14_Witness ==
    /\ aret.fresh
    /\ aret.err \notin {"", "none"}
    /\ aret.start < now
    /\ \E m \in monitored : m.full_name = aret.full /\ ~m.is_active

\* C15: there is at most one monitored row per full_name; no step removes a
\* row, so the number of rows never decreases; and RemoveRepository on an
\* existing row leaves the row in place with is_active = false.
C15_MonitoredNeverDeleted ==
    /\ [](\A a, b \in monitored : a.full_name = b.full_name => a = b)
    /\ [][/\ \A m \in monitored : \E n \in monitored' :
                n.id = m.id /\ n.full_name = m.full_name
          /\ Cardinality(monitored') >= Cardinality(monitored)
          /\ \A full \in MonitorNames :
                RemoveRepository(full) =>
                    \A m \in monitored : m.full_name = full =>
                        \E n \in monitored' : n.id = m.id /\ ~n.is_active]_vars

\* a repository was removed and another one is still active
C15_Witness ==
    \E a, b \in monitored : ~a.is_active /\ b.is_active

C18_CancelInGate ==
    \A c \in Clients :
        ccall[c].cancelledInGate =>
            /\ ccall[c].sent = 0
            /\ cpc[c] = "done" => ccall[c].err = "context canceled"

\* a call cancelled in the gate has returned, after the timer had fired too
C18_Witness ==
    \E c \in Clients :
        /\ ccall[c].cancelledInGate
        /\ cpc[c] = "done"
        /\ now >= ccall[c].wake

\* ---------------------------------------------------------------------
\* C19
\* ---------------------------------------------------------------------

WellFormed(full) == splitRepoName(full)[1] # "" /\ splitRepoName(full)[2] # ""

TriedNames == {mon.tried[i] : i \in 1..Len(mon.tried)}

\* the tick that was started has returned
TickEnded == mpc = "idle" /\ mon.started

\* C19: when a monitor tick has returned, either it gave every repository of
\* its list whose name splits into owner and name at least one
\* SyncRepository attempt, whatever the attempts on the others returned, or
\* it returned from a backoff because the context was cancelled.
C19_FailingRepositoryDoesNotBlock ==
    TickEnded =>
        \/ \A full \in mon.list : WellFormed(full) => full \in TriedNames
        \/ mon.aborted /\ mon.cancelled

\* a tick over three rows has returned with the context alive: the first
\* repository it tried failed on all three attempts, the name that does not
\* split was skipped, and the other repository was tried after the failure
C19_Witness ==
    /\ TickEnded
    /\ ~mon.cancelled
    /\ Cardinality(mon.list) = 3
    /\ Len(mon.tried) = 2
    /\ mon.tried[1] \in mon.failed
    /\ mon.tried[2] \notin mon.failed

\* ---------------------------------------------------------------------
\* C21
\* ---------------------------------------------------------------------

\* worker w ended while it held job j: after Dequeue had committed and before
\* Complete or Fail
CrashedHolding(w, j) == wpc[w] = "crashed" /\ wjob[w].id = j

\* in this step worker w calls Complete or Fail for job j
Settles(w, j) == wpc[w] = "processed" /\ wjob[w].id = j /\ wpc'[w] = "idle"

\* in this step a Dequeue statement of worker w takes job j
Takes(w, j) == wpc[w] = "idle" /\ wpc'[w] = "commit" /\ wjob'[w].id = j

Backoffs(initialBackoff, retryCount) ==
    {calculateBackoff([initial_backoff |-> initialBackoff,
                       retry_count |-> retryCount], rnd) : rnd \in RandTenths}

\* C22: the step in which a worker fails a job leaves the row failed with
\* last_retry_at = now and next_retry_at = now + backoff, where backoff is a
\* value of the backoff function for the initial_backoff the row had and its
\* retry_count (the count before or after this failure).  Stated for the sync
\* and resync jobs, whose handlers fail on an upstream or store error.
C22_FailSchedulesBackoff ==
    [][\A w \in Workers :
          (/\ wpc[w] = "processed" /\ werr[w] # "" /\ wpc'[w] = "idle"
           /\ wjob[w].type \in {JobTypeSync, JobTypeResync}) =>
              LET old == jobs[wjob[w].id]
                  new == jobs'[wjob[w].id]
              IN  /\ new.status = JobStatusFailed
                  /\ new.last_retry_at = now
                  /\ (new.next_retry_at - now) * Second \in
                         Backoffs(old.initial_backoff, old.retry_count)
                         \cup Backoffs(old.initial_backoff,
                                       old.retry_count + 1)]_vars

\* ---------------------------------------------------------------------
\* C23
\* ---------------------------------------------------------------------

\* C23: whatever the initial backoff and the retry count, the duration
\* calculateBackoff returns is at most DefaultMaxBackoff, and the durations
\* without jitter over the successive retry counts of a job never decrease.
C23_BackoffBoundedMonotone ==
    /\ calc.out <= DefaultMaxBackoff * Second
    /\ \A i \in 1..Len(calc.plain) :
          /\ calc.plain[i] <= DefaultMaxBackoff * Second
          /\ i > 1 => calc.plain[i - 1] <= calc.plain[i]

\* a job with a backoff of 2 s has failed MaxRetryCount times: the value
\* without jitter has doubled, and the last value with jitter was above the
\* plain one and below the cap
C23_Witness ==
    /\ calc.initial_backoff = 2
    /\ calc.retry_count = MaxRetryCount
    /\ calc.plain[2] = 2 * calc.plain[1]
    /\ calc.out > calc.plain[Len(calc.plain)]
    /\ calc.out < DefaultMaxBackoff * Second

\* a job whose backoff reached the cap: the product alone is beyond it
C23_WitnessCap ==
    /\ calc.retry_count >= 1
    /\ calc.initial_backoff * Pow(DefaultBackoffFactor, calc.retry_count)
           > DefaultMaxBackoff
    /\ calc.out = DefaultMaxBackoff * Second

\* ---------------------------------------------------------------------
\* C24
\* ---------------------------------------------------------------------

\* in this step the SyncRepository call of caller p returns out of its
\* first statement, the upstream GetRepository request
ReturnsFromGetRepository(p) == spc[p] = "GetRepository" /\ spc'[p] = "none"

\* C24: a SyncRepository call that returns out of the upstream GetRepository
\* request returns the wrapped upstream error, has not reached GetCommits,
\* and leaves repositories and commits as they were.
C24_GetRepositoryFailure ==
    [][\A p \in Workers :
          /\ ReturnsFromGetRepository(p) =>
                /\ werr'[p] = "GitHubError GetRepository"
                /\ lastSync'.err = "GitHubError GetRepository"
                /\ UNCHANGED storeVars
          /\ (spc[p] # "GetCommits" /\ spc'[p] = "GetCommits") =>
                spc[p] \in {"CreateRepository", "UpdateRepository"}]_vars

\* a call on a store that holds a repository and a commit has failed at the
\* upstream GetRepository request, and its job was failed for it
C24_Witness ==
    /\ lastSync.err = "GitHubError GetRepository"
    /\ repositories # {}
    /\ commits # {}
    /\ \E j \in DOMAIN jobs :
          /\ jobs[j].status = JobStatusFailed
          /\ jobs[j].error = "GitHubError GetRepository"

\* ---------------------------------------------------------------------
\* C25
\* ---------------------------------------------------------------------

RECURSIVE Concat(_)
\* the sequences of a sequence, one after the other
Concat(seqs) == IF seqs = << >> THEN << >> ELSE Head(seqs) \o Concat(Tail(seqs))

\* the shas of a sequence of commits
Shas(cs) == [i \in 1..Len(cs) |-> cs[i].sha]

\* the requests went for pages 1, 2, 3, ... with per_page = 100, and each
\* but the first followed a page of at least 100 commits
PagesInOrder ==
    \A i \in 1..Len(gc.requests) :
        /\ gc.requests[i] = [page |-> i, per_page |-> 100]
        /\ i > 1 => (Len(gc.pages) >= i - 1 /\ Len(gc.pages[i - 1]) >= 100)

\* no request follows a page of fewer than 100 commits, and a call that
\* returned nil returns the pages it fetched, in page order
StopsAtShortPage ==
    /\ \A i \in 1..Len(gc.pages) :
          Len(gc.pages[i]) < 100 => Len(gc.requests) = i
    /\ (gc.pc = "done" /\ gc.err = "") =>
          /\ gc.pages # << >>
          /\ Len(gc.pages[Len(gc.pages)]) < 100
          /\ Shas(gc.allCommits) = Shas(Concat(gc.pages))

C26_IntervalFloor ==
    sw.pc = "started" => sw.ticker >= 3600

\* ---------------------------------------------------------------------
\* C27
\* ---------------------------------------------------------------------

\* in this step worker w settles job j after its handler returned an error
FailsJob(w, j) ==
    wpc[w] = "processed" /\ wjob[w].id = j /\ werr[w] # "" /\ wpc'[w] = "idle"

\* C27: the retry_count of a row grows by exactly 1 in the step that settles
\* a failed dispatch of its job and in no other step, so it always equals
\* the number of failed dispatches of the job that were settled.
C27_RetryCountByOne ==
    /\ [](\A j \in DOMAIN jobs :
             jobs[j].retry_count = Count(history[j], JobStatusFailed))
    /\ [][\A j \in DOMAIN jobs :
             jobs'[j].retry_count =
                 jobs[j].retry_count
                     + (IF \E w \in Workers : FailsJob(w, j) THEN 1 ELSE 0)]_vars

\* a sync job with retries left (the branch in which the worker increments
\* its own copy of the count) has failed once and its row counts 1
C27_Witness ==
    \E j \in DOMAIN jobs :
        /\ jobs[j].type = JobTypeSync
        /\ jobs[j].status = JobStatusFailed
        /\ jobs[j].max_retries = DefaultMaxRetries
        /\ Count(history[j], "error") = 1
        /\ jobs[j].retry_count = 1

\* ---------------------------------------------------------------------
\* C28
\* ---------------------------------------------------------------------

\* C28: no call reads the rate-limit snapshot without holding the lock, on
\* the 403 rate-limit error path as on every other, so no read runs beside
\* a write; and the snapshot changes only in a step of the caller that
\* holds the write lock.
C28_SnapshotUnderLock ==
    /\ [](\A c \in Clients :
             ccall[c].unlockedReads = 0 /\ ~ccall[c].raced)
    /\ [][rateLimit' # rateLimit => wlock # ""]_vars

\* ---------------------------------------------------------------------
\* C29
\* ---------------------------------------------------------------------

\* the value a snapshot field has after a response: the header's if the
\* header is there and a number, the previous value otherwise
FieldAfter(header, previous) ==
    IF header \in {NoHeader, Unparseable} THEN previous ELSE header

\* in this step caller c gets the result of GetRateLimitInfo
GetsInfo(c) ==
    cpc[c] \in {"idle", "done"} /\ cpc'[c] = cpc[c]
        /\ ccall'[c].info # ccall[c].info

\* C29: the step that handles a response leaves in each field of the
\* snapshot the value of its header if that is present and parseable and
\* the previous value otherwise, no other step changes the snapshot, and
\* GetRateLimitInfo returns the snapshot as it is.
C29_SnapshotFollowsHeaders ==
    [][/\ \A c \in Clients :
            /\ (cpc[c] = "write" /\ cpc'[c] # "write") =>
                  /\ rateLimit'.Remaining =
                         FieldAfter(ccall[c].resp.remaining, rateLimit.Remaining)
                  /\ rateLimit'.Reset =
                         FieldAfter(ccall[c].resp.reset, rateLimit.Reset)
                  /\ rateLimit'.Limit =
                         FieldAfter(ccall[c].resp.limit, rateLimit.Limit)
            /\ GetsInfo(c) =>
                  /\ ccall'[c].info = rateLimit
                  /\ rateLimit' = rateLimit
       /\ (\A c \in Clients : ~(cpc[c] = "write" /\ cpc'[c] # "write")) =>
             rateLimit' = rateLimit]_vars

\* a response with Remaining and Limit but no Reset header and one whose
\* headers are no numbers were handled, and GetRateLimitInfo returned the
\* snapshot: the former reply's Remaining and Limit, the initial Reset
C29_Witness ==
    \E c \in Clients :
        /\ ccall[c].info = rateLimit
        /\ rateLimit = [Remaining |-> 5, Reset |-> 3600, Limit |-> 5000]
        /\ \E d \in Clients :
              /\ cpc[d] = "done"
              /\ ccall[d].resp.status = 200
              /\ ccall[d].resp.remaining = Unparseable
              /\ ccall[d].err = ""

\* ---------------------------------------------------------------------
\* C30
\* ---------------------------------------------------------------------

\* in this step the monitor calls SyncRepository
StartsAttempt == spc["mon"] = "none" /\ spc'["mon"] = "GetRepository"

\* in this step the monitor takes the result of a SyncRepository call
TakesResult == mpc = "sync" /\ spc["mon"] = "none" /\ mpc' # "sync"

\* C30: within a tick the attempts on a repository are numbered 1, 2, 3 and
\* there is no fourth; the first attempt is the only one on a repository
\* not tried before, and attempt k + 1 starts only from the wait that
\* followed the failure of attempt k, not before k * k seconds have passed
\* since that failure was taken; a success and the third failure both lead
\* to the next repository without a wait.
C30_ThreeAttemptsSquareBackoff ==
    /\ [](mon.attempt <= 3)
    /\ [][/\ StartsAttempt =>
               \/ /\ mpc = "next"
                  /\ mon'.attempt = 1
                  /\ mon'.full \notin TriedNames
               \/ /\ mpc = "backoff"
                  /\ mon'.full = mon.full
                  /\ mon'.attempt = mon.attempt + 1
                  /\ serr["mon"] # ""
                  /\ now >= mon.wake
          /\ TakesResult =>
               IF serr["mon"] # "" /\ mon.attempt < 3
               THEN /\ mpc' = "backoff"
                    /\ mon'.wake = now + mon.attempt * mon.attempt
               ELSE /\ mpc' = "next"
                    /\ mon'.repos = Tail(mon.repos)]_vars

\* the third attempt on a repository has just failed and the monitor is at
\* the next repository: the waits of 1 s and 4 s lie behind it
C30_Witness ==
    /\ mpc = "next"
    /\ mon.attempt = 3
    /\ mon.full \in mon.failed
    /\ mon.wake >= 5
    /\ now >= mon.wake
    /\ ~mon.cancelled

\* ---------------------------------------------------------------------
\* C31
\* ---------------------------------------------------------------------

\* the row of the monitored table for a full name
MonitoredRow(full) == CHOOSE m \in monitored : m.full_name = full

\* C31: the monitor writes the monitored table only when it takes a nil from
\* SyncRepository, and then only the last_sync_time of the repository it
\* synced; taking an error, the third one included, leaves every row as it
\* was, and the first attempt of a tick on a repository passes the
\* last_sync_time its row holds as `since`.
C31_LastSyncOnlyOnSuccess ==
    [][/\ monitored' # monitored =>
             /\ TakesResult
             /\ serr["mon"] = ""
             /\ monitored' = {IF m.full_name = mon.full
                              THEN [m EXCEPT !.last_sync_time = now]
                              ELSE m : m \in monitored}
       /\ (TakesResult /\ serr["mon"] # "") => monitored' = monitored
       /\ (StartsAttempt /\ mpc = "next") =>
             sync'["mon"].since = MonitoredRow(mon'.full).last_sync_time]_vars

\* a later tick starts its first attempt on a repository whose row still
\* holds the last_sync_time the process found at start, seconds after the
\* start: the attempts of the ticks before did not change it
C31_Witness ==
    /\ mpc = "sync"
    /\ mon.attempt = 1
    /\ mon.full = "golang/example"
    /\ lastSync.full = "golang/example"
    /\ lastSync.err # ""
    /\ now >= 5
    /\ sync["mon"].since = 0 - 20
    /\ MonitoredRow("golang/example").last_sync_time = 0 - 20

\* ---------------------------------------------------------------------
\* C32
\* ---------------------------------------------------------------------

\* in this step the SyncRepository call of p returns
SyncReturns(p) == spc[p] # "none" /\ spc'[p] = "none"

C34_InitialBackoffKept ==
    [][\A j \in DOMAIN jobs :
          j \in DOMAIN jobs' =>
              jobs'[j].initial_backoff = jobs[j].initial_backoff]_vars

\* ---------------------------------------------------------------------
\* C35
\* ---------------------------------------------------------------------

\* C35: every stored job has 0 <= retry_count <= max_retries and one of the
\* five statuses, whatever was enqueued and whatever its handler returned.
C35_RetryCountWithinLimit ==
    \A j \in DOMAIN jobs :
        /\ 0 <= jobs[j].retry_count
        /\ jobs[j].retry_count <= jobs[j].max_retries
        /\ jobs[j].status \in JobStatuses

\* a job enqueued with max_retries = 1 has failed: its retry_count has
\* reached the limit, beside a job left with the default limit
C35_Witness ==
    \E j, k \in DOMAIN jobs :
        /\ jobs[j].status = JobStatusFailed
        /\ jobs[j].retry_count = 1
        /\ jobs[j].max_retries = 1
        /\ jobs[k].max_retries = DefaultMaxRetries
        /\ jobs[k].retry_count = 1

\* ---------------------------------------------------------------------
\* C37
\* ---------------------------------------------------------------------

\* C37: while a caller is suspended in the rate-limit gate and no writer
\* holds the lock, another caller that has its response can enter
\* updateRateLimit, and another caller can take the snapshot with
\* GetRateLimitInfo: the suspended caller holds nothing they wait for.
C37_GateHoldsNoLock ==
    \A c, d \in Clients :
        (cpc[c] = "wait" /\ wlock = "") =>
            /\ cpc[d] = "update" => ENABLED UpdateLock(d)
            /\ cpc[d] \in {"idle", "done"} => ENABLED GetRateLimitInfo(d)

\* ---------------------------------------------------------------------
\* C38
\* ---------------------------------------------------------------------

\* C38: when AddRepository is called for a repository whose row is active
\* and the initial SyncRepository fails (no RemoveRepository for the name
\* having run during the call), the call returns with the row as it was:
\* still active, with the same last_sync_time.
C38_FailedAddKeepsActiveRow ==
    [][(/\ apc = "sync" /\ apc' = "idle"
        /\ acall.active /\ ~acall.disturbed
        /\ serr["api"] # "") =>
           \A m \in monitored :
               m.full_name = acall.full => m.is_active /\ m \in monitored']_vars

\* ---------------------------------------------------------------------
\* C40
\* ---------------------------------------------------------------------

\* C40: SyncRepository calls that run at the same time for a repository
\* not stored yet leave one repository row for it, and none of them returns
\* the error of a repository write: the call that loses the race to insert
\* the row succeeds as the winner does.
C40_ConcurrentFirstSync ==
    /\ \A a, b \in repositories : a.full_name = b.full_name => a = b
    /\ \A w \in Workers :
          wpc[w] = "processed" => werr[w] # "RepositoryError"

\* ---------------------------------------------------------------------
\* C39
\* ---------------------------------------------------------------------

\* the row of the repository is there and inactive: RemoveRepository has
\* returned for it and no AddRepository has followed
Removed(full) == \E m \in monitored : m.full_name = full /\ ~m.is_active

\* C39: for a repository that has been removed from the monitored set, the
\* monitor starts no SyncRepository attempt and writes no last_sync_time,
\* also when the removal came while a tick was in progress.
C39_NoSyncAfterRemove ==
    [][\A full \in MonitorNames :
          Removed(full) =>
              /\ ~(StartsAttempt /\ sync'["mon"].full = full)
              /\ ~(TakesResult /\ mon.full = full
                   /\ monitored' # monitored)]_vars

\* ---------------------------------------------------------------------
\* C36
\* ---------------------------------------------------------------------

\* C36: with the worker loops running and every call returning, every job
\* in the queue is eventually complete or failed: none stays pending or
\* running forever.
C36_EveryJobSettles ==
    \A j \in JobIds :
        (j \in DOMAIN jobs) ~>
            (j \in DOMAIN jobs /\ jobs[j].status \in {JobStatusComplete,
                                                       JobStatusFailed})

\* two jobs were enqueued and both have left pending and running, one
\* complete and one failed
C36_Witness ==
    \E j, k \in DOMAIN jobs :
        /\ jobs[j].status = JobStatusComplete
        /\ jobs[k].status = JobStatusFailed
        /\ Count(history[j], JobStatusRunning) = 1
        /\ Count(history[k], JobStatusRunning) = 1
        /\ \A w \in Workers : wpc[w] = "idle"

\* ---------------------------------------------------------------------
\* C33
\* ---------------------------------------------------------------------

\* in this step worker w issues the statement of Dequeue: it gets a row, or
\* none and processNextJob returns
DequeueStep(w) ==
    /\ wpc[w] = "idle"
    /\ \/ wpc'[w] = "commit"
       \/ wpc'[w] = "idle" /\ run.loop[w] # "sleep" /\ run'.loop[w] = "sleep"

\* the context is cancelled or Stop has been called
Stopping == run.ctx \/ run.stop

\* Pool.Stop has returned only with every pool worker returned, and a pool
\* worker that has returned stays so
PoolStopWaits ==
    /\ [](run.pstop = "returned" =>
             \A i \in PoolWorkers : run.pool[i] \in {"none", "returned"})
    /\ [][\A i \in PoolWorkers :
             run.pool[i] = "returned" => run'.pool[i] = "returned"]_vars

\* C33 (as claimed): once the context is cancelled or Stop is called, no
\* worker loop issues a Dequeue any more; and Pool.Stop returns only after
\* every pool worker has returned.
C33_NoDequeueAfterCancel ==
    /\ [][\A w \in Workers : Stopping => ~DequeueStep(w)]_vars
    /\ PoolStopWaits

\* C33 (amended): a Dequeue is issued only in an iteration whose select took
\* default, and once the context is cancelled or Stop is called no select
\* takes default: the loop goes on only with the iteration it is in, whose
\* Dequeue may still be to come, and returns at its next select; it is
\* between jobs whenever it is at the select, asleep or returned; until it
\* has returned it has a step to take, and once returned it takes none; and
\* Pool.Stop returns only after every pool worker has returned.
C33_StopsAfterIteration ==
    /\ [][\A w \in Workers :
             /\ DequeueStep(w) => run.loop[w] = "default"
             /\ (Stopping /\ run'.loop[w] = "default") =>
                    run.loop[w] = "default"
             /\ run.loop[w] = "returned" =>
                    run'.loop[w] = "returned" /\ wpc'[w] = wpc[w]]_vars
    /\ [](\A w \in Workers :
             /\ run.loop[w] \in {"select", "sleep", "returned"} =>
                    wpc[w] = "idle" /\ wjob[w] = NoJob
             /\ (Stopping /\ run.loop[w] \notin {"none", "returned"}) =>
                    ENABLED <<Start(w)>>_vars)
    /\ PoolStopWaits

\* Stop was called with the context alive: the job worker has returned with
\* one job complete and another left pending, and Pool.Stop has returned
\* after both pool workers
C33_Witness ==
    /\ run.stop /\ ~run.ctx
    /\ run.loop["w1"] = "returned"
    /\ \E j, k \in DOMAIN jobs :
          /\ jobs[j].status = JobStatusComplete
          /\ jobs[k].status = JobStatusPending
    /\ run.pstop = "returned"
    /\ \A i \in PoolWorkers : run.pool[i] = "returned"

====
